---- MODULE Spec2Model ----
(***************************************************************************)
(* Dixi vision service: GestureRecognitionService (packages/vision/main.py) *)
(* as a state machine.  Coordinates and distances are integers in           *)
(* thousandths of the normalised camera range, confidences in hundredths,   *)
(* timestamps in milliseconds.                                              *)
(***************************************************************************)
EXTENDS Integers, Sequences, FiniteSets, TLC

\* ------------------------------------------------------------------ bounds

\* Timestamp (ms) of the moment the service is constructed.
StartTime == 1000

\* Last timestamp (ms) a frame may carry.
MaxTime == 2200

\* ------------------------------------------------------- program constants

\* self.push_cooldown_ms
push_cooldown_ms == 200

\* Python's None for an optional number (timestamps and distances are >= 0).
None == -1

\* Python's None for an optional gesture record.
NoGesture ==
    [type |-> "None", position |-> [x |-> 0, y |-> 0], confidence |-> 0,
     timestamp |-> 0, hand |-> "None"]

\* ------------------------------------------------------------------- state

VARIABLES
    is_tracking,                \* self.is_tracking
    tracking_thread,            \* self.tracking_thread: "None" or "thread"
    camera,                     \* self.camera: "None", "open" or "released"
    camera_error,               \* self.camera_error: "None" or a message
    current_gesture,            \* self.current_gesture
    gesture_history,            \* deque(maxlen=30) of [x, y, timestamp]
    motion_history,             \* deque(maxlen=50) of [x, y, timestamp]
    two_hand_distance_history,  \* deque(maxlen=20) of [distance, timestamp]
    last_pushed_gesture,        \* self.last_pushed_gesture
    last_push_time,             \* self.last_push_time
    last_gesture_type,          \* self.last_gesture_type
    gesture_hold_time,          \* self.gesture_hold_time (dict type -> count)
    last_pinch_time,            \* self.last_pinch_time
    last_pinch_distance,        \* self.last_pinch_distance
    previous_finger_count,      \* self.previous_finger_count
    worker,                     \* where the thread running _track_gestures is
    stopping,                   \* a stop_tracking call is waiting in join
    now,                        \* timestamp_ms of the latest frame
    push_call,                  \* history: what the latest _push_gesture_to_backend call did
    analysis,                   \* history: what the latest _analyze_gesture call did
    calibrated,                 \* ProjectionCalibration.calibrated
    homography_matrix,          \* ProjectionCalibration.homography_matrix
    camera_corners,             \* ProjectionCalibration.camera_corners
    projector_corners,          \* ProjectionCalibration.projector_corners
    created_at,                 \* ProjectionCalibration.created_at
    smoother,                   \* ProjectionCalibration.smoother: [history, last_smoothed]
    calibration_file,           \* what the file named calibration_file holds
    last_position_time,         \* ProjectionCalibration.last_position_time
    last_transformed_pos,       \* ProjectionCalibration._last_transformed_pos
    pending,                    \* the calibrate call another thread is inside of
    engine_call,                \* history: what the latest call on the engine did
    other_worker,               \* where a second thread running _track_gestures is
    threads,                    \* which thread tracking_thread and a join refer to
    lock,                       \* self.lock: who holds it
    latest_frame,               \* self.latest_frame
    handler,                    \* where a request handler calling a getter is
    access                      \* history: the latest access to a shared value

gate_vars == <<last_pushed_gesture, last_push_time>>

resolver_vars == <<gesture_history, motion_history, last_gesture_type, gesture_hold_time,
                   last_pinch_time, last_pinch_distance, previous_finger_count>>

engine_vars == <<calibrated, homography_matrix, camera_corners, projector_corners,
                 created_at, smoother, calibration_file, last_position_time,
                 last_transformed_pos, pending, engine_call>>

thread_vars == <<other_worker, threads>>

lock_vars == <<lock, latest_frame, handler, access>>

service_vars == <<is_tracking, tracking_thread, camera, camera_error, current_gesture,
                  two_hand_distance_history, worker, stopping>>

vars == <<is_tracking, tracking_thread, camera, camera_error, current_gesture,
          gesture_history, motion_history, two_hand_distance_history,
          last_pushed_gesture, last_push_time, last_gesture_type, gesture_hold_time,
          last_pinch_time, last_pinch_distance, previous_finger_count,
          worker, stopping, now, push_call, analysis,
          calibrated, homography_matrix, camera_corners, projector_corners,
          created_at, smoother, calibration_file, last_position_time,
          last_transformed_pos, pending, engine_call,
          other_worker, threads, lock, latest_frame, handler, access>>

\* --------------------------------------------------------------- push gate

\* The answers requests.post can give: a response with a status code, a
\* requests.exceptions.RequestException (Timeout, ConnectionError), or any
\* other exception raised while building or sending the request.
Http200 == [kind |-> "response", status |-> 200]
Http500 == [kind |-> "response", status |-> 500]
PostTimeout == [kind |-> "exception", class |-> "Timeout"]
PostConnectionError == [kind |-> "exception", class |-> "ConnectionError"]
PostOtherError == [kind |-> "exception", class |-> "TypeError"]

BackendAnswers == {Http200, Http500, PostTimeout, PostConnectionError, PostOtherError}

\* Subclasses of requests.exceptions.RequestException.
RequestExceptions == {"Timeout", "ConnectionError"}

\* gesture_changed (main.py 776-779)
GestureChanged(gesture_data) ==
    \/ last_pushed_gesture = NoGesture
    \/ last_pushed_gesture.type # gesture_data.type

\* cooldown_expired (main.py 780)
CooldownExpired(current_time) ==
    (current_time - last_push_time) >= push_cooldown_ms

\* is_wave (main.py 781)
IsWave(gesture_data) == gesture_data.type = "wave"

\* ShouldPush with the third disjunct open to every type: the gate the
\* property C5_UnknownOnlyOnChange must tell from the real one.
ShouldPushUnknownToo(gesture_data, current_time) ==
    \/ GestureChanged(gesture_data)
    \/ (CooldownExpired(current_time) /\ IsWave(gesture_data))
    \/ CooldownExpired(current_time)

\* The condition of the if statement at main.py 783.
ShouldPush(gesture_data, current_time) ==
    \/ GestureChanged(gesture_data)
    \/ (CooldownExpired(current_time) /\ IsWave(gesture_data))
    \/ (CooldownExpired(current_time) /\ gesture_data.type # "unknown")

\* Whether a response makes the call record the new baseline (main.py 791).
RecordsBaseline(answer) ==
    answer.kind = "response" /\ answer.status = 200

\* except requests.exceptions.RequestException (main.py 794)
InnerExceptCatches(answer) ==
    answer.kind = "exception" /\ answer.class \in RequestExceptions

\* OuterExceptCatches narrowed to the requests exceptions: the handler the
\* property C6_PushNeverStopsLoop must tell from the real one.
OuterExceptCatchesRequestsOnly(answer) ==
    answer.kind = "exception" /\ answer.class \in RequestExceptions

\* except Exception (main.py 799)
OuterExceptCatches(answer) ==
    answer.kind = "exception"

\* Whether an exception of the POST leaves _push_gesture_to_backend.
PushPropagates(answer) ==
    /\ answer.kind = "exception"
    /\ ~InnerExceptCatches(answer)
    /\ ~OuterExceptCatches(answer)

\* _push_gesture_to_backend(gesture_data, timestamp_ms) with the backend
\* giving `answer` to the POST, if one is made.  Sets the gate's state and
\* push_call; the caller sets everything else.
PushGestureToBackend(gesture_data, timestamp_ms, answer) ==
    LET posts == IF ShouldPush(gesture_data, timestamp_ms) THEN 1 ELSE 0
        records == posts = 1 /\ RecordsBaseline(answer)
        sameRun == push_call.type = gesture_data.type
    IN  /\ last_pushed_gesture' = IF records THEN gesture_data ELSE last_pushed_gesture
        /\ last_push_time' = IF records THEN timestamp_ms ELSE last_push_time
        /\ push_call' =
              [type |-> gesture_data.type,
               timestamp |-> timestamp_ms,
               posts |-> posts,
               answer |-> IF posts = 1 THEN answer ELSE [kind |-> "none"],
               raised |-> posts = 1 /\ PushPropagates(answer),
               \* baseline the call was gated against
               gated_type |-> last_pushed_gesture.type,
               gated_time |-> last_push_time,
               \* latest POST of this type in the unbroken run of frames of this
               \* type that ends with this call, before this call (None if none)
               run_post |-> IF ~sameRun THEN None
                            ELSE IF push_call.posts = 1 THEN push_call.timestamp
                            ELSE push_call.run_post,
               \* type of the latest POST made before this call ("None" if none)
               prev_post_type |-> IF push_call.posts = 1 THEN push_call.type
                                  ELSE push_call.prev_post_type,
               prev_post_time |-> IF push_call.posts = 1 THEN push_call.timestamp
                                  ELSE push_call.prev_post_time]

NoPushCall ==
    [type |-> "None", timestamp |-> 0, posts |-> 0, answer |-> [kind |-> "none"],
     raised |-> FALSE, gated_type |-> "None", gated_time |-> 0,
     run_post |-> None, prev_post_type |-> "None", prev_post_time |-> None]

\* ------------------------------------------------------- landmark samples

Fingers == {"thumb", "index", "middle", "ring", "pinky"}

Pt(px, py) == [x |-> px, y |-> py]

\* A hand sample as the landmarker delivers it: landmark index -> point, for
\* p.n landmarks (21 for a well-formed hand).  p.ext are the fingers held
\* extended, the thumb tip lies (p.gap, p.dy) from the index tip, and
\* p.index_mcp is the index knuckle (it fixes the yaw of the hand); the whole
\* hand is moved p.shift to the right.
\* Indices: 0 wrist, 3/4 thumb ip/tip, 5/6/8 index mcp/pip/tip, 10/12 middle
\* pip/tip, 14/16 ring pip/tip, 17/18/20 pinky mcp/pip/tip (main.py 267).
HandLandmarks(p) ==
    LET tipY(f) == IF f \in p.ext THEN 400 ELSE 550
        thumbTip == Pt(450 + p.gap, tipY("index") + p.dy)
        outward == IF thumbTip.x > 500 THEN 1 ELSE -1
        thumbIp == Pt(thumbTip.x - outward * (IF "thumb" \in p.ext THEN 20 ELSE -20),
                      thumbTip.y + 30)
        at(q) == Pt(q.x + p.shift, q.y)
    IN  [i \in 0..(p.n - 1) |-> at(
            CASE i = 0 -> Pt(500, 800)
              [] i = 1 -> Pt(560, 760)
              [] i = 2 -> Pt(600, 720)
              [] i = 3 -> thumbIp
              [] i = 4 -> thumbTip
              [] i = 5 -> p.index_mcp
              [] i = 6 -> Pt(450, 500)
              [] i = 7 -> Pt(450, 450)
              [] i = 8 -> Pt(450, tipY("index"))
              [] i = 9 -> Pt(500, 600)
              [] i = 10 -> Pt(500, 500)
              [] i = 11 -> Pt(500, 450)
              [] i = 12 -> Pt(500, tipY("middle"))
              [] i = 13 -> Pt(550, 600)
              [] i = 14 -> Pt(550, 500)
              [] i = 15 -> Pt(550, 450)
              [] i = 16 -> Pt(550, tipY("ring"))
              [] i = 17 -> Pt(600, 600)
              [] i = 18 -> Pt(600, 500)
              [] i = 19 -> Pt(600, 450)
              [] OTHER -> Pt(600, tipY("pinky")))]

\* ------------------------------------------------------ feature extraction

\* _detect_finger_states
DetectFingerStates(lm) ==
    [thumb |-> IF lm[4].x > lm[0].x THEN lm[4].x > lm[3].x ELSE lm[4].x < lm[3].x,
     index |-> lm[8].y < lm[6].y,
     middle |-> lm[12].y < lm[10].y,
     ring |-> lm[16].y < lm[14].y,
     pinky |-> lm[20].y < lm[18].y]

\* _detect_hand_orientation: each angle is kept as the vector whose arctan2 it
\* is (roll: wrist -> middle mcp, pitch: index mcp -> pinky mcp, yaw: wrist ->
\* index mcp).
DetectHandOrientation(lm) ==
    [roll |-> [dx |-> lm[9].x - lm[0].x, dy |-> lm[9].y - lm[0].y],
     pitch |-> [dx |-> lm[17].x - lm[5].x, dy |-> lm[17].y - lm[5].y],
     yaw |-> [dx |-> lm[5].x - lm[0].x, dy |-> lm[5].y - lm[0].y]]

Abs(n) == IF n < 0 THEN -n ELSE n

\* lo < degrees(arctan2(v.dy, v.dx)) < hi for the four quadrants _check_gesture
\* tests, decided on the vector.
AngleWithin45Of0(v) == (v.dx = 0 /\ v.dy = 0) \/ (v.dx > 0 /\ Abs(v.dy) < v.dx)
AngleBeyond135(v) == v.dx < 0 /\ Abs(v.dy) < -v.dx
AngleWithin45OfMinus90(v) == v.dy < 0 /\ Abs(v.dx) < -v.dy
AngleWithin45Of90(v) == v.dy > 0 /\ Abs(v.dx) < v.dy

\* np.sqrt on the sample grid: the poses used keep distances integral.
Sqrt(n) == CHOOSE r \in 0..n : r * r = n

\* thumb_index_dist (main.py 446)
ThumbIndexDist(lm) ==
    Sqrt((lm[4].x - lm[8].x) * (lm[4].x - lm[8].x)
         + (lm[4].y - lm[8].y) * (lm[4].y - lm[8].y))

Bit(b) == IF b THEN 1 ELSE 0

\* extended_count (main.py 450)
ExtendedCount(fs) ==
    Bit(fs.thumb) + Bit(fs.index) + Bit(fs.middle) + Bit(fs.ring) + Bit(fs.pinky)

\* The pinch threshold 0.05 of main.py 469, 499, 599 and 612.
PinchThreshold == 50

\* _check_gesture: the gesture_checks table; a name it does not list is False.
CheckGesture(gesture_name, lm, fs, thumb_index_dist, orientation) ==
    LET onlyThumb == fs.thumb /\ ~fs.index /\ ~fs.middle /\ ~fs.ring /\ ~fs.pinky
        pointing == fs.index /\ ~fs.middle /\ lm[8].y < lm[0].y - 150
    IN  CASE gesture_name = "fist" ->
                ~fs.thumb /\ ~fs.index /\ ~fs.middle /\ ~fs.ring /\ ~fs.pinky
          [] gesture_name = "open_palm" -> ExtendedCount(fs) = 5
          [] gesture_name = "thumbs_up" -> onlyThumb /\ lm[4].y < lm[0].y
          [] gesture_name = "thumbs_down" -> onlyThumb /\ lm[4].y > lm[0].y
          [] gesture_name = "peace" -> fs.index /\ fs.middle /\ ~fs.ring /\ ~fs.pinky
          [] gesture_name = "ok" ->
                thumb_index_dist < PinchThreshold /\ fs.middle /\ fs.ring /\ fs.pinky
          [] gesture_name = "rock" -> fs.index /\ fs.pinky /\ ~fs.middle /\ ~fs.ring
          [] gesture_name = "spiderman" ->
                ~fs.middle /\ ~fs.ring /\ fs.thumb /\ fs.index /\ fs.pinky
          [] gesture_name = "gun" ->
                fs.index /\ ~fs.middle /\ ~fs.ring /\ ~fs.pinky /\ lm[4].y < lm[8].y
          [] gesture_name = "three" ->
                fs.thumb /\ fs.index /\ fs.middle /\ ~fs.ring /\ ~fs.pinky
          [] gesture_name = "four" ->
                ~fs.thumb /\ fs.index /\ fs.middle /\ fs.ring /\ fs.pinky
          [] gesture_name = "five" -> ExtendedCount(fs) = 5
          [] gesture_name = "pinch" -> thumb_index_dist < PinchThreshold
          [] gesture_name = "point" -> fs.index /\ lm[8].y < lm[0].y - 100
          [] gesture_name = "point_up" -> pointing /\ AngleWithin45Of0(orientation.yaw)
          [] gesture_name = "point_down" -> pointing /\ AngleBeyond135(orientation.yaw)
          [] gesture_name = "point_left" ->
                pointing /\ AngleWithin45OfMinus90(orientation.yaw)
          [] gesture_name = "point_right" -> pointing /\ AngleWithin45Of90(orientation.yaw)
          [] OTHER -> FALSE

\* self.GESTURE_PRIORITY
GESTURE_PRIORITY ==
    [high |-> <<"pinch", "ok", "peace", "double_tap">>,
     medium |-> <<"point_up", "point_down", "point_left", "point_right",
                  "swipe_left", "swipe_right", "swipe_up", "swipe_down",
                  "zoom_in", "zoom_out", "grab", "release">>,
     low |-> <<"fist", "open_palm", "thumbs_up", "thumbs_down", "three", "four",
               "five", "wave", "rock", "spiderman", "gun">>]

\* ---------------------------------------------------------- motion tracker

\* An append that never evicts: the append the property
\* C31_BuffersBoundedInOrder must tell from the real one.
AppendUnbounded(history, sample, cap) == Append(history, sample)

\* deque(maxlen=cap).append
AppendBounded(history, sample, cap) ==
    IF Len(history) >= cap THEN Append(Tail(history), sample) ELSE Append(history, sample)

\* list(history)[-20:]
Recent(history) ==
    IF Len(history) > 20 THEN SubSeq(history, Len(history) - 19, Len(history)) ELSE history

RECURSIVE SumSeq(_)
SumSeq(s) == IF s = <<>> THEN 0 ELSE Head(s) + SumSeq(Tail(s))

\* The indices i of range(1, len(recent)) whose dt is > 0 (main.py 337-339),
\* as positions of the sequence (1-based: i is the later sample).
MovingSteps(recent) ==
    SelectSeq([i \in 1..(Len(recent) - 1) |-> i + 1],
              LAMBDA i : recent[i].timestamp - recent[i - 1].timestamp > 0)

\* np.pi in thousandths of a radian.
PiMilli == 3142

\* np.arctan2(dy, dx) in thousandths of a radian, for the moves along one axis
\* that the samples make.
ArcTan2(dy, dx) ==
    CASE dy = 0 /\ dx >= 0 -> 0
      [] dy = 0 /\ dx < 0 -> PiMilli
      [] dx = 0 /\ dy > 0 -> PiMilli \div 2
      [] dx = 0 /\ dy < 0 -> -(PiMilli \div 2)

\* velocities (main.py 335-345): thousandths of the range per second.
Velocities(recent) ==
    LET steps == MovingSteps(recent)
        dx(i) == recent[i].x - recent[i - 1].x
        dy(i) == recent[i].y - recent[i - 1].y
        dt(i) == recent[i].timestamp - recent[i - 1].timestamp
    IN  [k \in 1..Len(steps) |->
            (Sqrt(dx(steps[k]) * dx(steps[k]) + dy(steps[k]) * dy(steps[k])) * 1000)
                \div dt(steps[k])]

\* directions (main.py 335-345)
Directions(recent) ==
    LET steps == MovingSteps(recent)
    IN  [k \in 1..Len(steps) |->
            ArcTan2(recent[steps[k]].y - recent[steps[k] - 1].y,
                    recent[steps[k]].x - recent[steps[k] - 1].x)]

\* len(velocities)
VelocityCount(recent) == Len(MovingSteps(recent))

\* max(xs) - min(xs) of a sequence of numbers.
RangeOf(xs) ==
    LET S == {xs[i] : i \in 1..Len(xs)}
    IN  (CHOOSE v \in S : \A w \in S : v >= w) - (CHOOSE v \in S : \A w \in S : v <= w)

\* np.var(distances_from_center) (main.py 361-364) for samples that share
\* their y and lie on the 0.01 grid, times len(recent)^4 * 10^4: with
\* X = x in hundredths and D = |n * X - sum X|, it is n * sum D^2 - (sum D)^2.
DistanceVarianceScaled(recent) ==
    LET n == Len(recent)
        X == [i \in 1..n |-> recent[i].x \div 10]
        D == [i \in 1..n |-> Abs(n * X[i] - SumSeq(X))]
    IN  n * SumSeq([i \in 1..n |-> D[i] * D[i]]) - SumSeq(D) * SumSeq(D)

\* distance_variance < limit, limit in ten-thousandths (main.py 364, 373).
DistanceVarianceBelow(recent, limit) ==
    LET n == Len(recent)
    IN  DistanceVarianceScaled(recent) < n * n * n * n * limit

\* avg_velocity > limit, limit in thousandths per second.
AvgVelocityAbove(recent, limit) ==
    SumSeq(Velocities(recent)) > limit * VelocityCount(recent)

\* is_circular (main.py 364)
IsCircular(recent) ==
    DistanceVarianceBelow(recent, 100) /\ AvgVelocityAbove(recent, 100)

\* Whether is_figure_eight has been assigned when main.py 387 reads it: only
\* the body of the if at main.py 367 assigns it.
FigureEightAssigned(recent) == IsCircular(recent) /\ Len(recent) > 15

\* is_figure_eight as main.py 369-373 assigns it: the centers of the two
\* halves (which share their y) are more than 0.1 apart.
IsFigureEight(recent) ==
    LET n == Len(recent)
        mid_point == n \div 2
        sum1 == SumSeq([i \in 1..mid_point |-> recent[i].x])
        sum2 == SumSeq([i \in 1..(n - mid_point) |-> recent[mid_point + i].x])
    IN  /\ 10 * Abs(sum1 * (n - mid_point) - sum2 * mid_point)
             > 1000 * mid_point * (n - mid_point)
        /\ DistanceVarianceBelow(recent, 150)

\* avg_direction compared with a bound in thousandths of a radian.
AvgDirectionAbove(recent, bound) ==
    SumSeq(Directions(recent)) > bound * VelocityCount(recent)

AvgDirectionBelow(recent, bound) ==
    SumSeq(Directions(recent)) < bound * VelocityCount(recent)

\* direction_changes (main.py 382-383)
DirectionChanges(recent) ==
    LET d == Directions(recent)
    IN  Cardinality({i \in 2..Len(d) : Abs(d[i] - d[i - 1]) > 2000})

\* avg_angle_change > 0 (main.py 392-395)
Clockwise(recent) ==
    LET d == Directions(recent)
        wrap(a) == IF Abs(a) < PiMilli THEN a
                   ELSE IF a > 0 THEN a - 2 * PiMilli ELSE a + 2 * PiMilli
    IN  SumSeq([i \in 1..(Len(d) - 1) |-> wrap(d[i + 1] - d[i])]) > 0

\* _detect_motion_pattern on the history that already holds the current
\* sample.  raised names the exception that leaves the function, if any.
DetectMotionPattern(history) ==
    LET recent == Recent(history)
        x_range == RangeOf([i \in 1..Len(recent) |-> recent[i].x])
        y_range == RangeOf([i \in 1..Len(recent) |-> recent[i].y])
        is_swipe_left == /\ x_range > 150 /\ AvgDirectionBelow(recent, -2500)
                         /\ AvgVelocityAbove(recent, 200)
        is_swipe_right == /\ x_range > 150 /\ AvgDirectionAbove(recent, 500)
                          /\ AvgVelocityAbove(recent, 200)
        is_swipe_up == /\ y_range > 150
                       /\ AvgDirectionAbove(recent, -1500) /\ AvgDirectionBelow(recent, -500)
                       /\ AvgVelocityAbove(recent, 200)
        is_swipe_down == /\ y_range > 150
                         /\ AvgDirectionAbove(recent, 500) /\ AvgDirectionBelow(recent, 1500)
                         /\ AvgVelocityAbove(recent, 200)
        is_shake == DirectionChanges(recent) > 3 /\ AvgVelocityAbove(recent, 300)
        pattern ==
            IF IsFigureEight(recent) THEN "figure_eight"
            ELSE IF IsCircular(recent)
                 THEN (IF Clockwise(recent) THEN "rotate_clockwise"
                       ELSE "rotate_counterclockwise")
            ELSE IF is_swipe_left THEN "swipe_left"
            ELSE IF is_swipe_right THEN "swipe_right"
            ELSE IF is_swipe_up THEN "swipe_up"
            ELSE IF is_swipe_down THEN "swipe_down"
            ELSE IF is_shake THEN "shake"
            ELSE "none"
    IN  IF Len(history) < 10 THEN [raised |-> "None", pattern |-> "none"]
        ELSE IF Len(recent) < 10 THEN [raised |-> "None", pattern |-> "none"]
        ELSE IF VelocityCount(recent) < 5 THEN [raised |-> "None", pattern |-> "none"]
        ELSE IF ~FigureEightAssigned(recent)
             THEN [raised |-> "UnboundLocalError", pattern |-> "none"]
        ELSE [raised |-> "None", pattern |-> pattern]

\* x_direction_changes / y_direction_changes (main.py 727-730) of the
\* coordinate c ("x" or "y"): sign changes of the velocity.
VelocitySignChanges(recent, c) ==
    LET steps == MovingSteps(recent)
        rising(k) == recent[steps[k]][c] - recent[steps[k] - 1][c] > 0
    IN  Cardinality({k \in 2..Len(steps) : rising(k) # rising(k - 1)})

\* _detect_wave
DetectWave(history) ==
    LET recent == Recent(history)
        x_range == RangeOf([i \in 1..Len(recent) |-> recent[i].x])
        y_range == RangeOf([i \in 1..Len(recent) |-> recent[i].y])
        horizontal_wave == /\ VelocitySignChanges(recent, "x") >= 3
                           /\ x_range > 100
                           /\ 10 * x_range > 15 * y_range
        vertical_wave == /\ VelocitySignChanges(recent, "y") >= 3
                         /\ y_range > 100
                         /\ 10 * y_range > 15 * x_range
    IN  IF Len(history) < 10 THEN FALSE
        ELSE IF Len(recent) < 10 THEN FALSE
        ELSE IF VelocityCount(recent) < 5 THEN FALSE
        ELSE horizontal_wave \/ vertical_wave

\* ------------------------------------------------------- gesture resolver

\* The first name of the list that is among the accepted ones, "None" if
\* none is: the for loops that break at the first _check_gesture hit.
FirstMatch(names, accepted) ==
    LET hits == {i \in 1..Len(names) : names[i] \in accepted}
    IN  IF hits = {} THEN "None"
        ELSE names[CHOOSE i \in hits : \A j \in hits : i <= j]

\* DoubleTapWindow closed at 200: the window the property
\* C9_DoubleTapWindowOpen must tell from the real one.
DoubleTapWindowClosedAt200(time_since_last) ==
    200 <= time_since_last /\ time_since_last < 800

\* 200 < time_since_last < 800 (main.py 473)
DoubleTapWindow(time_since_last) ==
    200 < time_since_last /\ time_since_last < 800

\* The landmark indices _analyze_gesture reads before it touches any state
\* (main.py 414-425).
LandmarksRead == {0, 3, 4, 5, 6, 8, 10, 12, 14, 16, 18, 20}

\* HoldTimeAfter without the clear() of the else branch: the update the
\* property C14_HoldTimeCountsRun must tell from the real one.
HoldTimeNeverCleared(gesture_type) ==
    IF gesture_type \in DOMAIN gesture_hold_time
    THEN [gesture_hold_time EXCEPT ![gesture_type] = @ + 1]
    ELSE gesture_hold_time @@ (gesture_type :> 1)

\* The if/else that updates gesture_hold_time (main.py 551-556).
HoldTimeAfter(gesture_type) ==
    IF gesture_type = last_gesture_type
    THEN (IF gesture_type \in DOMAIN gesture_hold_time
          THEN [gesture_hold_time EXCEPT ![gesture_type] = @ + 1]
          ELSE gesture_hold_time @@ (gesture_type :> 1))
    ELSE (gesture_type :> 1)

\* What one tier of _analyze_gesture hands to the next: the local variables
\* detected, gesture_type and confidence, and the three fields the tiers
\* write.
Undecided ==
    [detected |-> FALSE, type |-> "unknown", confidence |-> 50,
     last_pinch_time |-> last_pinch_time,
     last_pinch_distance |-> last_pinch_distance,
     previous_finger_count |-> previous_finger_count]

\* Decide without the assignment of confidence: the step the property
\* C13_UnknownIffUndecided must tell from the real one.
DecideKeepsConfidence(s, gesture_type, confidence) ==
    [s EXCEPT !.detected = TRUE, !.type = gesture_type]

\* gesture_type = ...; confidence = ...; detected = True
Decide(s, gesture_type, confidence) ==
    [s EXCEPT !.detected = TRUE, !.type = gesture_type, !.confidence = confidence]

\* MotionWins switched off: the tier the property C8_MotionWinsOutright must
\* tell from the real one.
MotionNeverWins(pattern) == FALSE

\* The test of the tier that decides a gesture by its motion pattern
\* (main.py 460).
MotionWins(pattern) == pattern # "none"

\* Priority 1 (main.py 459-463)
MotionTier(s, pattern) ==
    IF MotionWins(pattern) THEN Decide(s, pattern, 85) ELSE s

\* DoubleTapTier without the clearing of last_pinch_time: the tier the
\* property C32_DoubleTapNeverRepeats must tell from the real one.
DoubleTapTierKeepsPinchTime(s, f) ==
    IF s.detected \/ ~(f.thumb_index_dist < PinchThreshold) THEN s
    ELSE IF /\ s.last_pinch_time # None
            /\ DoubleTapWindow(f.timestamp - s.last_pinch_time)
         THEN [Decide(s, "double_tap", 85) EXCEPT !.last_pinch_time = f.timestamp]
         ELSE [s EXCEPT !.last_pinch_time = f.timestamp,
                        !.last_pinch_distance = f.thumb_index_dist]

\* Priority 2, double_tap (main.py 465-482).  f holds the features of the
\* sample.
DoubleTapTier(s, f) ==
    IF s.detected \/ ~(f.thumb_index_dist < PinchThreshold) THEN s
    ELSE IF /\ s.last_pinch_time # None
            /\ DoubleTapWindow(f.timestamp - s.last_pinch_time)
         THEN [Decide(s, "double_tap", 85) EXCEPT !.last_pinch_time = None]
         ELSE [s EXCEPT !.last_pinch_time = f.timestamp,
                        !.last_pinch_distance = f.thumb_index_dist]

\* A for loop over the names of one priority list that stops at the first
\* name _check_gesture accepts (main.py 485-494, 524-532, 542-547).
ListTier(s, f, names, confidence) ==
    LET accepted ==
            {name \in {names[i] : i \in 1..Len(names)} :
                CheckGesture(name, f.lm, f.finger_states, f.thumb_index_dist,
                             f.orientation)}
        hit == FirstMatch(names, accepted)
    IN  IF s.detected \/ hit = "None" THEN s ELSE Decide(s, hit, confidence)

\* Priority 3, zoom_in / zoom_out (main.py 497-508)
ZoomTier(s, f) ==
    IF s.detected \/ ~(f.thumb_index_dist < PinchThreshold /\ s.last_pinch_distance # None)
    THEN s
    ELSE [(IF 10 * f.thumb_index_dist > 12 * s.last_pinch_distance
           THEN Decide(s, "zoom_in", 80)
           ELSE IF 10 * f.thumb_index_dist < 8 * s.last_pinch_distance
           THEN Decide(s, "zoom_out", 80)
           ELSE s)
          EXCEPT !.last_pinch_distance = f.thumb_index_dist]

\* GrabTier that never decides: the tier the property
\* C12_FistPalmUnlessGrabRelease must tell from the real one.
GrabTierOnlyCounts(s, f) ==
    IF s.detected THEN s ELSE [s EXCEPT !.previous_finger_count = f.extended_count]

\* Priority 3, grab / release (main.py 510-522)
GrabTier(s, f) ==
    IF s.detected THEN s
    ELSE [(IF /\ s.previous_finger_count # None
              /\ s.previous_finger_count > f.extended_count + 1
           THEN Decide(s, "grab", 80)
           ELSE IF /\ s.previous_finger_count # None
                   /\ s.previous_finger_count < f.extended_count - 1
           THEN Decide(s, "release", 80)
           ELSE s)
          EXCEPT !.previous_finger_count = f.extended_count]

\* Priority 4, wave (main.py 537-541)
WaveTier(s, wave) ==
    IF s.detected \/ ~wave THEN s ELSE Decide(s, "wave", 85)

\* The names the for loops skip (main.py 487, 526).
NotDoubleTap(name) == name # "double_tap"
NotStateful(name) == name \notin {"zoom_in", "zoom_out", "grab", "release"}

\* The tiers in the order _analyze_gesture runs them (main.py 453-547), from
\* the locals and fields s0 they find.
RunTiersFrom(s0, f, pattern, wave) ==
    ListTier(
      WaveTier(
        ListTier(
          GrabTier(
            ZoomTier(
              ListTier(
                DoubleTapTier(MotionTier(s0, pattern), f),
                f, SelectSeq(GESTURE_PRIORITY.high, NotDoubleTap), 90),
              f),
            f),
          f, SelectSeq(GESTURE_PRIORITY.medium, NotStateful), 85),
        wave),
      f, GESTURE_PRIORITY.low, 85)

\* The tiers run on the fields of the service as they are.
RunTiers(f, pattern, wave) == RunTiersFrom(Undecided, f, pattern, wave)

\* The record _analyze_gesture returns (main.py 558-572) with the fields it
\* leaves behind, for the sample's features f and the outcome s of the tiers.
Analyzed(f, s, gh, mh, pattern) ==
    [raised |-> "None",
     gesture_history |-> gh, motion_history |-> mh,
     last_pinch_time |-> s.last_pinch_time,
     last_pinch_distance |-> s.last_pinch_distance,
     previous_finger_count |-> s.previous_finger_count,
     gesture_hold_time |-> HoldTimeAfter(s.type),
     pattern |-> pattern,
     thumb_index_dist |-> f.thumb_index_dist,
     extended_count |-> f.extended_count,
     finger_states |-> f.finger_states,
     detected |-> s.detected,
     gesture_data |-> [type |-> s.type,
                       position |-> Pt(f.lm[0].x * 2 - 1000, 1000 - f.lm[0].y * 2),
                       confidence |-> s.confidence,
                       timestamp |-> f.timestamp,
                       hand |-> "detected"]]

\* The features of a sample that the tiers read (main.py 440-451).
Features(lm, timestamp_ms) ==
    [lm |-> lm,
     timestamp |-> timestamp_ms,
     finger_states |-> DetectFingerStates(lm),
     orientation |-> DetectHandOrientation(lm),
     thumb_index_dist |-> ThumbIndexDist(lm),
     extended_count |-> ExtendedCount(DetectFingerStates(lm))]

\* _analyze_gesture(hand_landmarks, timestamp_ms): what it returns or raises,
\* and the value it leaves in each field it may write.
AnalyzeGesture(lm, timestamp_ms) ==
    IF ~(LandmarksRead \subseteq DOMAIN lm)
    THEN [raised |-> "IndexError",
          gesture_history |-> gesture_history, motion_history |-> motion_history]
    ELSE
    LET current_pos == [x |-> lm[0].x, y |-> lm[0].y, timestamp |-> timestamp_ms]
        gh == AppendBounded(gesture_history, current_pos, 30)
        mh == AppendBounded(motion_history, current_pos, 50)
        motion == DetectMotionPattern(mh)
        f == Features(lm, timestamp_ms)
    IN  IF motion.raised # "None"
        THEN [raised |-> motion.raised, gesture_history |-> gh, motion_history |-> mh]
        ELSE Analyzed(f, RunTiers(f, motion.pattern, DetectWave(gh)), gh, mh,
                      motion.pattern)

\* The effect of one _analyze_gesture call on the resolver's fields, with its
\* outcome r (an AnalyzeGesture record) kept in `analysis` next to the
\* values the frame found.
Resolve(r, timestamp_ms) ==
    /\ gesture_history' = r.gesture_history
    /\ motion_history' = r.motion_history
    /\ IF r.raised # "None"
       THEN /\ UNCHANGED <<last_gesture_type, gesture_hold_time, last_pinch_time,
                           last_pinch_distance, previous_finger_count>>
            /\ analysis' = [raised |-> r.raised, timestamp |-> timestamp_ms,
                            prev_timestamp |-> analysis.timestamp,
                            returned_count |-> analysis.returned_count,
                            returned_type |-> analysis.returned_type,
                            returned_run |-> analysis.returned_run]
       ELSE /\ last_gesture_type' = r.gesture_data.type
            /\ gesture_hold_time' = r.gesture_hold_time
            /\ last_pinch_time' = r.last_pinch_time
            /\ last_pinch_distance' = r.last_pinch_distance
            /\ previous_finger_count' = r.previous_finger_count
            /\ analysis' = [raised |-> "None",
                            timestamp |-> timestamp_ms,
                            prev_timestamp |-> analysis.timestamp,
                            type |-> r.gesture_data.type,
                            confidence |-> r.gesture_data.confidence,
                            pattern |-> r.pattern,
                            thumb_index_dist |-> r.thumb_index_dist,
                            extended_count |-> r.extended_count,
                            finger_states |-> r.finger_states,
                            found_pinch_time |-> last_pinch_time,
                            found_pinch_distance |-> last_pinch_distance,
                            found_finger_count |-> previous_finger_count,
                            found_type |-> last_gesture_type,
                            detected |-> r.detected,
                            \* extended_count of the latest call that returned
                            \* before this one (None if none)
                            prev_count |-> analysis.returned_count,
                            \* the latest call that returned, this one included:
                            \* its extended_count, its type, and how many calls
                            \* in a row have returned that type
                            returned_count |-> r.extended_count,
                            returned_type |-> r.gesture_data.type,
                            returned_run |->
                                IF analysis.returned_type = r.gesture_data.type
                                THEN analysis.returned_run + 1 ELSE 1]

\* A frame on which _analyze_gesture is not called.
NotAnalysed(timestamp_ms) ==
    [raised |-> "not called", timestamp |-> timestamp_ms,
     prev_timestamp |-> analysis.timestamp,
     returned_count |-> analysis.returned_count,
     returned_type |-> analysis.returned_type,
     returned_run |-> analysis.returned_run]

NoAnalysis ==
    [raised |-> "not called", timestamp |-> 0, prev_timestamp |-> 0,
     returned_count |-> None, returned_type |-> "None", returned_run |-> 0]

\* ------------------------------------------------------ two-hand gestures

Min(S) == CHOOSE v \in S : \A w \in S : v <= w
Max(S) == CHOOSE v \in S : \A w \in S : v >= w

\* _detect_two_hand_gesture(hand1_landmarks, hand2_landmarks, timestamp_ms):
\* the history it leaves, and the gesture it returns ("None" for None) or the
\* exception it raises.
DetectTwoHandGesture(lm1, lm2, timestamp_ms) ==
    IF 0 \notin DOMAIN lm1 \/ 0 \notin DOMAIN lm2
    THEN [raised |-> "IndexError", history |-> two_hand_distance_history, type |-> "None"]
    ELSE
    LET hand_distance ==
            Sqrt((lm1[0].x - lm2[0].x) * (lm1[0].x - lm2[0].x)
                 + (lm1[0].y - lm2[0].y) * (lm1[0].y - lm2[0].y))
        history == AppendBounded(two_hand_distance_history,
                                 [distance |-> hand_distance, timestamp |-> timestamp_ms], 20)
        n == Len(history)
        \* list(history)[-5:-1]
        prev_distances == {history[i].distance : i \in (n - 4)..(n - 1)}
        clap == n >= 5 /\ 10 * hand_distance < 7 * Min(prev_distances)
        stretch == n >= 5 /\ 10 * hand_distance > 13 * Max(prev_distances)
        malformed == ~(LandmarksRead \subseteq DOMAIN lm1 /\ LandmarksRead \subseteq DOMAIN lm2)
        fs1 == DetectFingerStates(lm1)
        fs2 == DetectFingerStates(lm2)
    IN  IF clap THEN [raised |-> "None", history |-> history, type |-> "clap"]
        ELSE IF stretch THEN [raised |-> "None", history |-> history, type |-> "stretch"]
        ELSE IF malformed THEN [raised |-> "IndexError", history |-> history, type |-> "None"]
        ELSE IF fs1.index /\ fs2.index /\ ~fs1.middle /\ ~fs2.middle
             THEN [raised |-> "None", history |-> history, type |-> "point_both"]
        ELSE [raised |-> "None", history |-> history, type |-> "None"]

\* The record a two-hand gesture is returned as (main.py 645-656, 663-674, 682-693).
TwoHandGesture(type, lm1, lm2, timestamp_ms) ==
    [type |-> type,
     position |-> Pt((lm1[0].x + lm2[0].x) - 1000, 1000 - (lm1[0].y + lm2[0].y)),
     confidence |-> IF type = "point_both" THEN 80 ELSE 85,
     timestamp |-> timestamp_ms,
     hand |-> "both"]

\* _draw_landmarks indexes every landmark up to 20 (main.py 754-763).
DrawLandmarksRaises(lm) == ~(0..20 \subseteq DOMAIN lm)

\* ------------------------------------------- projection_calibration.py

\* Camera and projector coordinates are counted in tenths of the normalised
\* unit, transformed positions in thousandths; created_at in whole seconds.

\* Python's None for an optional point, list of points or matrix.
NoPoint == <<>>
NoCorners == <<>>
NoMatrix == [rows |-> <<>>, scale |-> "None"]

\* OUTLIER_DISTANCE_THRESHOLD = 0.3, in thousandths.
OUTLIER_DISTANCE_THRESHOLD == 300

\* PositionSmoother(alpha=0.3): alpha in tenths, and history_size.
alpha == 3
history_size == 5

\* PositionSmoother.__init__ and PositionSmoother.reset
SmootherReset == [history |-> <<>>, last_smoothed |-> NoPoint]

\* An outlier test that also rejects a jump of exactly the threshold: the
\* test the property C21_OutlierRejectedElseAccepted must tell from the real one.
OutlierFromThreshold(dx, dy) ==
    dx * dx + dy * dy >= OUTLIER_DISTANCE_THRESHOLD * OUTLIER_DISTANCE_THRESHOLD

\* distance > OUTLIER_DISTANCE_THRESHOLD for the jump (dx, dy): the square
\* root is increasing, so the squares are compared.
Outlier(dx, dy) ==
    dx * dx + dy * dy > OUTLIER_DISTANCE_THRESHOLD * OUTLIER_DISTANCE_THRESHOLD

\* Smooth that takes a rejected position as its new base: the smoother the
\* property C37_RejectionPersists must tell from the real one.
SmoothRebasing(sm, x, y) ==
    LET history == AppendBounded(sm.history, <<x, y>>, history_size)
    IN  IF sm.last_smoothed = NoPoint
        THEN [smoother |-> [history |-> history, last_smoothed |-> <<x, y>>],
              result |-> <<x, y>>]
        ELSE LET dx == x - sm.last_smoothed[1]
                 dy == y - sm.last_smoothed[2]
             IN  IF Outlier(dx, dy)
                 THEN [smoother |-> [history |-> history, last_smoothed |-> <<x, y>>],
                       result |-> sm.last_smoothed]
                 ELSE LET smoothed ==
                              <<(alpha * x + (10 - alpha) * sm.last_smoothed[1]) \div 10,
                                (alpha * y + (10 - alpha) * sm.last_smoothed[2]) \div 10>>
                      IN  [smoother |-> [history |-> history, last_smoothed |-> smoothed],
                           result |-> smoothed]

\* PositionSmoother.smooth(x, y) on the smoother sm: the smoother it leaves
\* and the pair it returns.
Smooth(sm, x, y) ==
    LET history == AppendBounded(sm.history, <<x, y>>, history_size)
    IN  IF sm.last_smoothed = NoPoint
        THEN [smoother |-> [history |-> history, last_smoothed |-> <<x, y>>],
              result |-> <<x, y>>]
        ELSE LET dx == x - sm.last_smoothed[1]
                 dy == y - sm.last_smoothed[2]
             IN  IF Outlier(dx, dy)
                 THEN [smoother |-> [history |-> history,
                                     last_smoothed |-> sm.last_smoothed],
                       result |-> sm.last_smoothed]
                 ELSE LET smoothed ==
                              <<(alpha * x + (10 - alpha) * sm.last_smoothed[1]) \div 10,
                                (alpha * y + (10 - alpha) * sm.last_smoothed[2]) \div 10>>
                      IN  [smoother |-> [history |-> history, last_smoothed |-> smoothed],
                           result |-> smoothed]

\* np.allclose(a, b, atol=0.01) on two points of the tenths grid (the
\* relative term of at most 1e-5 is below the grid).
AllClose(a, b) == 100 * Abs(a[1] - b[1]) <= 10 /\ 100 * Abs(a[2] - b[2]) <= 10

\* _validate_points without its loop over pairs of points: the validation
\* the property C16_BadSourceCornersChangeNothing must tell from the real one.
ValidatePointsNoOverlapTest(points) ==
    ~(/\ 100 * Abs((points[2][1] - points[1][1]) * (points[3][2] - points[1][2])
                    - (points[2][2] - points[1][2]) * (points[3][1] - points[1][1])) < 1
      /\ 100 * Abs((points[2][1] - points[1][1]) * (points[4][2] - points[1][2])
                    - (points[2][2] - points[1][2]) * (points[4][1] - points[1][1])) < 1)

\* np.cross(v, w) for the vectors from p0 to p and from p0 to q.
Cross(p0, p, q) == (p[1] - p0[1]) * (q[2] - p0[2]) - (p[2] - p0[2]) * (q[1] - p0[1])

\* _validate_points(points) for a list of four points: a square of tenths
\* is a hundredth, the threshold 0.0001 a hundredth of that.
ValidatePoints(points) ==
    /\ \A i \in 1..4 : \A j \in (i + 1)..4 : ~AllClose(points[i], points[j])
    /\ ~(/\ 100 * Abs(Cross(points[1], points[2], points[3])) < 1
         /\ 100 * Abs(Cross(points[1], points[2], points[4])) < 1)

RECURSIVE Gcd(_, _)
Gcd(a, b) == IF b = 0 THEN a ELSE Gcd(b, a % b)

\* A 3x3 matrix, as the row-major tuple of its nine entries, in lowest terms:
\* the same matrix up to the scale the normalisation fixes.
LowestTerms(m) ==
    LET g == Gcd(Gcd(Gcd(Gcd(Abs(m[1]), Abs(m[2])), Gcd(Abs(m[3]), Abs(m[4]))),
                     Gcd(Gcd(Abs(m[5]), Abs(m[6])), Gcd(Abs(m[7]), Abs(m[8])))),
                 Abs(m[9]))
    IN  IF g = 0 THEN m ELSE [i \in 1..9 |-> m[i] \div g]

\* The projective map that takes the unit square's corners (0,0), (1,0),
\* (1,1), (0,1) to the four points q, scaled to integers.
SquareToQuad(q) ==
    LET dx1 == q[2][1] - q[3][1]
        dx2 == q[4][1] - q[3][1]
        sx == q[1][1] - q[2][1] + q[3][1] - q[4][1]
        dy1 == q[2][2] - q[3][2]
        dy2 == q[4][2] - q[3][2]
        sy == q[1][2] - q[2][2] + q[3][2] - q[4][2]
        d == dx1 * dy2 - dx2 * dy1
        g == sx * dy2 - dx2 * sy
        h == dx1 * sy - sx * dy1
    IN  <<d * (q[2][1] - q[1][1]) + g * q[2][1],
          d * (q[4][1] - q[1][1]) + h * q[4][1],
          d * q[1][1],
          d * (q[2][2] - q[1][2]) + g * q[2][2],
          d * (q[4][2] - q[1][2]) + h * q[4][2],
          d * q[1][2],
          g, h, d>>

Adjugate(m) ==
    <<m[5] * m[9] - m[6] * m[8], m[3] * m[8] - m[2] * m[9], m[2] * m[6] - m[3] * m[5],
      m[6] * m[7] - m[4] * m[9], m[1] * m[9] - m[3] * m[7], m[3] * m[4] - m[1] * m[6],
      m[4] * m[8] - m[5] * m[7], m[2] * m[7] - m[1] * m[8], m[1] * m[5] - m[2] * m[4]>>

MatMul(a, b) ==
    [k \in 1..9 |->
        LET r == (k - 1) \div 3
            c == (k - 1) % 3
        IN  a[3 * r + 1] * b[c + 1] + a[3 * r + 2] * b[c + 4] + a[3 * r + 3] * b[c + 7]]

\* The matrix h taken from coordinates in tenths to the code's coordinates.
ToUnits(h) ==
    LowestTerms(<<10 * h[1], 10 * h[2], h[3], 10 * h[4], 10 * h[5], h[6],
                  100 * h[7], 100 * h[8], 10 * h[9]>>)

\* The direction of Vh[-1], the null vector of the matrix A that
\* _compute_homography builds from the four correspondences (for four source
\* and four destination points no three of which are on a line, the null
\* space of A is that one direction).
NullVector(src_pts, dst_pts) ==
    ToUnits(LowestTerms(MatMul(LowestTerms(SquareToQuad(dst_pts)),
                               LowestTerms(Adjugate(LowestTerms(SquareToQuad(src_pts)))))))

\* The two rows of A for the correspondence (x, y) -> (u, v), applied to h:
\* both are 0 exactly when h is in the null space.  (Coordinates in tenths,
\* h in the code's units.)
SolvesDLT(h, src_pts, dst_pts) ==
    \A i \in 1..4 :
        LET x == src_pts[i][1]
            y == src_pts[i][2]
            u == dst_pts[i][1]
            v == dst_pts[i][2]
            w == h[7] * x + h[8] * y + 10 * h[9]
        IN  /\ 10 * (h[1] * x + h[2] * y + 10 * h[3]) = u * w
            /\ 10 * (h[4] * x + h[5] * y + 10 * h[6]) = v * w

\* _compute_homography(src_pts, dst_pts).  dst_pts[i] raises IndexError for
\* a list of fewer than four points and the except clause returns None;
\* points after the fourth are not read.  H is divided by H[2,2] when
\* abs(H[2,2]) > 1e-10 (a non-zero entry of the unit null vector of these
\* inputs is far above that) and is returned as the SVD gave it otherwise:
\* of unit length, its orientation (sign) LAPACK's.
ComputeHomography(src_pts, dst_pts, sign) ==
    IF Len(dst_pts) < 4 THEN NoMatrix
    ELSE LET H == NullVector(src_pts, SubSeq(dst_pts, 1, 4))
         IN  IF H[9] # 0
             THEN [rows |-> IF H[9] < 0 THEN [i \in 1..9 |-> -H[i]] ELSE H,
                   scale |-> "H[2,2]"]
             ELSE [rows |-> [i \in 1..9 |-> sign * H[i]], scale |-> "norm"]

\* H[2,2] = 1 for the matrix H the engine holds: scaled by its own H[2,2]
\* the entry is 1, scaled by the norm it is the 0 that was found.
BottomRightIsOne(H) == H.scale = "H[2,2]" /\ H.rows[9] # 0

\* What the file named calibration_file holds.
NoFile == [state |-> "absent", data |-> <<>>]
CorruptFile == [state |-> "corrupt", data |-> <<>>]

\* _save_calibration: the file it writes.
SaveCalibration(c, H, cam_pts, proj_pts, created) ==
    [state |-> "saved",
     data |-> [calibrated |-> c, homography_matrix |-> H, camera_corners |-> cam_pts,
               projector_corners |-> proj_pts, created_at |-> created]]

\* position_throttle_ms = 33
position_throttle_ms == 33

\* The engine's fields, for comparing before and after a call.
EngineState ==
    [calibrated |-> calibrated, homography_matrix |-> homography_matrix,
     camera_corners |-> camera_corners, projector_corners |-> projector_corners,
     created_at |-> created_at, smoother |-> smoother,
     calibration_file |-> calibration_file,
     last_position_time |-> last_position_time,
     last_transformed_pos |-> last_transformed_pos]

\* A gesture dict that carries nothing.
NoGestureData == [type |-> "None"]

\* The latest call on the engine.  smoothed_since_change counts, up to 2,
\* the positions the smoother was given since the engine was constructed or
\* its calibration was last replaced or cleared.
NoEngineCall ==
    [op |-> "none", success |-> FALSE, result |-> NoPoint, point |-> NoPoint,
     apply_smoothing |-> FALSE, projected |-> NoPoint, atomic_results |-> {},
     gesture |-> NoGestureData, returned |-> NoGestureData, throttled |-> FALSE,
     disk_ok |-> TRUE, smoothed_since_change |-> 0,
     before |-> [calibrated |-> FALSE, homography_matrix |-> NoMatrix,
                 camera_corners |-> NoCorners, projector_corners |-> NoCorners,
                 created_at |-> None, smoother |-> SmootherReset,
                 calibration_file |-> NoFile, last_position_time |-> 0,
                 last_transformed_pos |-> NoPoint],
     camera_corners |-> NoCorners, projector_corners |-> NoCorners]

\* No calibrate call is between its assignment of homography_matrix and the
\* assignments that follow it.  While one is, worlds holds what an engine
\* whose calibrate were one indivisible step could be by now, given the
\* results the transforms have returned since: the calibrate done or still
\* to come, and the smoother.
NoPending == [active |-> FALSE, cam_pts |-> NoCorners, proj_pts |-> NoCorners,
              call |-> NoEngineCall, worlds |-> {}]

\* _load_calibration: does the file `file` set the fields?  A file that is
\* absent is not read; one that is not JSON raises in json.load and the
\* except clause sets calibrated = False.
Loads(file) ==
    /\ file.state = "saved"
    /\ file.data.calibrated
    /\ file.data.homography_matrix # NoMatrix

\* ProjectionCalibration.__init__ with the file holding `file`: the fields
\* are set to their defaults and _load_calibration reads the file.
EngineConstructed(file) ==
    /\ calibrated = Loads(file)
    /\ homography_matrix = IF Loads(file) THEN file.data.homography_matrix ELSE NoMatrix
    /\ camera_corners = IF Loads(file) THEN file.data.camera_corners ELSE NoCorners
    /\ projector_corners = IF Loads(file) THEN file.data.projector_corners ELSE NoCorners
    /\ created_at = IF Loads(file) THEN file.data.created_at ELSE None
    /\ smoother = SmootherReset
    /\ last_position_time = 0
    /\ last_transformed_pos = NoPoint
    /\ calibration_file = file
    /\ pending = NoPending
    /\ engine_call = NoEngineCall

\* A call on the engine dt ms after the last event; the service is not
\* involved.
EngineCallAt(dt) ==
    /\ now + dt <= MaxTime
    /\ now' = now + dt
    /\ UNCHANGED <<service_vars, gate_vars, resolver_vars, push_call, analysis,
                   thread_vars, lock_vars>>

\* A new ProjectionCalibration on the same file (the process restarts).
Construct(dt) ==
    /\ EngineCallAt(dt)
    /\ ~pending.active
    /\ calibrated' = Loads(calibration_file)
    /\ homography_matrix' =
           IF Loads(calibration_file) THEN calibration_file.data.homography_matrix
           ELSE NoMatrix
    /\ camera_corners' =
           IF Loads(calibration_file) THEN calibration_file.data.camera_corners
           ELSE NoCorners
    /\ projector_corners' =
           IF Loads(calibration_file) THEN calibration_file.data.projector_corners
           ELSE NoCorners
    /\ created_at' =
           IF Loads(calibration_file) THEN calibration_file.data.created_at ELSE None
    /\ smoother' = SmootherReset
    /\ last_position_time' = 0
    /\ last_transformed_pos' = NoPoint
    /\ engine_call' = [NoEngineCall EXCEPT !.op = "construct",
                                           !.success = Loads(calibration_file),
                                           !.before = EngineState]
    /\ UNCHANGED <<calibration_file, pending>>

\* The list of [x, y] pairs calibrate extracts from a list of corner dicts.
Points(corners) == [i \in 1..Len(corners) |-> <<corners[i].x, corners[i].y>>]

\* The default projector corners: the unit square.
UnitSquare == <<<<0, 0>>, <<10, 0>>, <<10, 10>>, <<0, 10>>>>

\* What a calibrate call is asked, for the history.
CalibrateCalled(corners, target) ==
    [NoEngineCall EXCEPT !.op = "calibrate", !.before = EngineState,
                         !.smoothed_since_change = engine_call.smoothed_since_change,
                         !.camera_corners = corners,
                         !.projector_corners =
                             IF target.given THEN target.points ELSE NoCorners]

\* calibrate from its assignment of camera_corners to its return (lines
\* 216-233) for the matrix H: the fields are stored, the smoother is
\* reset and _save_calibration writes the file, or fails to (disk_ok false:
\* open or json.dump raises, the except clause prints, and calibrate goes on
\* to return success).
CalibrateStores(call, H, cam_pts, proj_pts, disk_ok) ==
    /\ camera_corners' = cam_pts
    /\ projector_corners' = proj_pts
    /\ created_at' = now' \div 1000
    /\ calibrated' = TRUE
    /\ smoother' = SmootherReset
    /\ calibration_file' =
           IF disk_ok
           THEN SaveCalibration(TRUE, H, cam_pts, proj_pts, now' \div 1000)
           ELSE calibration_file
    /\ engine_call' = [call EXCEPT !.success = TRUE, !.disk_ok = disk_ok,
                                   !.smoothed_since_change = 0]

\* calibrate(camera_corners, projector_corners).  corners is the list of
\* camera corner dicts; target is the optional list of projector corner
\* dicts ([given |-> FALSE] for None).
Calibrate(corners, target, sign, disk_ok, dt) ==
    /\ EngineCallAt(dt)
    /\ ~pending.active
    /\ LET call == CalibrateCalled(corners, target)
           cam_pts == Points(corners)
           proj_pts == IF target.given THEN Points(target.points) ELSE UnitSquare
       IN  IF Len(corners) # 4 \/ ~ValidatePoints(cam_pts)
           THEN /\ engine_call' = call
                /\ UNCHANGED <<calibrated, homography_matrix, camera_corners,
                               projector_corners, created_at, smoother,
                               calibration_file>>
           ELSE \E H \in {ComputeHomography(cam_pts, proj_pts, sign)} :
                    /\ homography_matrix' = H
                    /\ IF H = NoMatrix
                       THEN /\ engine_call' = call
                            /\ UNCHANGED <<calibrated, camera_corners, projector_corners,
                                           created_at, smoother, calibration_file>>
                       ELSE CalibrateStores(call, H, cam_pts, proj_pts, disk_ok)
    /\ UNCHANGED <<last_position_time, last_transformed_pos, pending>>

\* calibrate, run by one thread while another may call the engine: the call
\* up to and including self.homography_matrix = ... for valid corners and a
\* matrix that is not None.
CalibrateAssignsMatrix(corners, target, sign, dt) ==
    /\ EngineCallAt(dt)
    /\ ~pending.active
    /\ Len(corners) = 4
    /\ ValidatePoints(Points(corners))
    /\ \E H \in {ComputeHomography(Points(corners),
                                   IF target.given THEN Points(target.points)
                                   ELSE UnitSquare, sign)} :
           /\ H # NoMatrix
           /\ homography_matrix' = H
           /\ pending' = [active |-> TRUE, cam_pts |-> Points(corners),
                          proj_pts |-> IF target.given THEN Points(target.points)
                                       ELSE UnitSquare,
                          call |-> CalibrateCalled(corners, target),
                          worlds |-> {[done |-> FALSE, smoother |-> smoother]}]
    /\ engine_call' = [CalibrateCalled(corners, target) EXCEPT !.op = "calibrating"]
    /\ UNCHANGED <<calibrated, camera_corners, projector_corners, created_at, smoother,
                   calibration_file, last_position_time, last_transformed_pos>>

\* The rest of that call.
CalibrateReturns(disk_ok, dt) ==
    /\ EngineCallAt(dt)
    /\ pending.active
    /\ CalibrateStores(pending.call, homography_matrix, pending.cam_pts,
                       pending.proj_pts, disk_ok)
    /\ pending' = NoPending
    /\ UNCHANGED <<homography_matrix, last_position_time, last_transformed_pos>>

\* A clear_calibration that leaves the smoother as it is: the step the
\* property C22_SmootherResetOnChange must tell from the real one.
ClearCalibrationKeepsSmoother(disk_ok, dt) ==
    /\ EngineCallAt(dt)
    /\ ~pending.active
    /\ calibrated' = FALSE
    /\ homography_matrix' = NoMatrix
    /\ camera_corners' = NoCorners
    /\ projector_corners' = NoCorners
    /\ created_at' = None
    /\ calibration_file' = IF disk_ok THEN NoFile ELSE calibration_file
    /\ engine_call' = [NoEngineCall EXCEPT !.op = "clear_calibration",
                                           !.disk_ok = disk_ok,
                                           !.before = EngineState]
    /\ UNCHANGED <<smoother, last_position_time, last_transformed_pos, pending>>

\* clear_calibration().  With disk_ok false os.remove raises and the except
\* clause prints: the file stays.
ClearCalibration(disk_ok, dt) ==
    /\ EngineCallAt(dt)
    /\ ~pending.active
    /\ calibrated' = FALSE
    /\ homography_matrix' = NoMatrix
    /\ camera_corners' = NoCorners
    /\ projector_corners' = NoCorners
    /\ created_at' = None
    /\ smoother' = SmootherReset
    /\ calibration_file' = IF disk_ok THEN NoFile ELSE calibration_file
    /\ engine_call' = [NoEngineCall EXCEPT !.op = "clear_calibration",
                                           !.disk_ok = disk_ok,
                                           !.before = EngineState]
    /\ UNCHANGED <<last_position_time, last_transformed_pos, pending>>

\* u / w in thousandths with no clamp: the step the property
\* C20_ResultsInUnitSquare must tell from the real one.
Unclamped(u, w) ==
    LET su == IF w < 0 THEN -u ELSE u
        sw == Abs(w)
    IN  IF sw = 0 THEN 0 ELSE (1000 * su) \div sw

\* max(0.0, min(1.0, u / w)), in thousandths.
Clamp01(u, w) ==
    LET su == IF w < 0 THEN -u ELSE u
        sw == Abs(w)
    IN  IF su <= 0 THEN 0 ELSE IF su >= sw THEN 1000 ELSE (1000 * su) \div sw

\* transformed[2] for the point (x, y), ten times over: the matrix H applied
\* to (x, y, 1) with x and y in tenths.  abs(transformed[2]) < 1e-10 is this
\* number being 0 (a non-zero one is far above 1e-10 on these inputs).
Divisor(H, x, y) == H.rows[7] * x + H.rows[8] * y + 10 * H.rows[9]

\* A zero test that never answers yes: the test the property
\* C19_NoneWhenUncalibratedOrDivisorZero must tell from the real one.
DivisorNeverZero(w) == FALSE

\* abs(transformed[2]) < 1e-10
DivisorIsZero(w) == w = 0

\* The clamped projection of (x, y) under the matrix H (lines 341-353),
\* NoPoint where transform_point returns None before it gets there.  The
\* matrix is applied to (x, y, 1); with x and y in tenths, ten times each
\* component.
Project(c, H, x, y) ==
    IF ~c \/ H = NoMatrix THEN NoPoint
    ELSE IF DivisorIsZero(Divisor(H, x, y)) THEN NoPoint
    ELSE <<Clamp01(H.rows[1] * x + H.rows[2] * y + 10 * H.rows[3], Divisor(H, x, y)),
           Clamp01(H.rows[4] * x + H.rows[5] * y + 10 * H.rows[6], Divisor(H, x, y))>>

\* transform_point(x, y, apply_smoothing) on an engine whose calibrated
\* flag, matrix and smoother are c, H and sm: what it returns and the
\* smoother it leaves.
TransformPointOn(c, H, sm, x, y, apply_smoothing) ==
    LET projected == Project(c, H, x, y)
    IN  IF projected = NoPoint
        THEN [result |-> NoPoint, smoother |-> sm, projected |-> NoPoint]
        ELSE IF apply_smoothing
        THEN [result |-> Smooth(sm, projected[1], projected[2]).result,
              smoother |-> Smooth(sm, projected[1], projected[2]).smoother,
              projected |-> projected]
        ELSE [result |-> projected, smoother |-> sm, projected |-> projected]

\* What transform_point would do in the world w were the calibrate under
\* way one indivisible step: run before it, on the old flag and matrix (if
\* it is still to come), or after it, on the new matrix and a smoother that
\* was reset when it was done.  Each outcome is the result and the world
\* it leaves.
AtomicOutcomesIn(w, x, y, apply_smoothing) ==
    LET pre == TransformPointOn(pending.call.before.calibrated,
                                pending.call.before.homography_matrix,
                                w.smoother, x, y, apply_smoothing)
        post == TransformPointOn(TRUE, homography_matrix,
                                 IF w.done THEN w.smoother ELSE SmootherReset,
                                 x, y, apply_smoothing)
    IN  (IF w.done THEN {}
         ELSE {[result |-> pre.result,
                world |-> [done |-> FALSE, smoother |-> pre.smoother]]})
        \cup {[result |-> post.result,
                world |-> [done |-> TRUE, smoother |-> post.smoother]]}

AtomicOutcomes(x, y, apply_smoothing) ==
    UNION {AtomicOutcomesIn(w, x, y, apply_smoothing) : w \in pending.worlds}

\* What the call would return were it to run wholly before or wholly after
\* a calibrate that is under way (the call itself, when none is).
AtomicResults(x, y, apply_smoothing) ==
    IF pending.active
    THEN {o.result : o \in AtomicOutcomes(x, y, apply_smoothing)}
    ELSE {TransformPointOn(calibrated, homography_matrix, smoother,
                           x, y, apply_smoothing).result}

\* smoothed_since_change after a call that gave the smoother a position, or
\* did not.
SmoothedAfter(smoothed) ==
    IF smoothed THEN Min({engine_call.smoothed_since_change + 1, 2})
    ELSE engine_call.smoothed_since_change

\* transform_point(x, y, apply_smoothing)
TransformPoint(x, y, apply_smoothing, dt) ==
    /\ EngineCallAt(dt)
    /\ \E r \in {TransformPointOn(calibrated, homography_matrix, smoother,
                                  x, y, apply_smoothing)} :
           /\ smoother' = r.smoother
           /\ engine_call' =
                  [NoEngineCall EXCEPT !.op = "transform_point",
                                       !.smoothed_since_change =
                                           SmoothedAfter(apply_smoothing
                                                         /\ r.result # NoPoint),
                                       !.before = EngineState,
                                       !.point = <<x, y>>,
                                       !.apply_smoothing = apply_smoothing,
                                       !.success = (r.result # NoPoint),
                                       !.result = r.result,
                                       !.projected = r.projected,
                                       !.atomic_results =
                                           AtomicResults(x, y, apply_smoothing)]
           /\ pending' =
                  IF pending.active
                  THEN [pending EXCEPT !.worlds =
                            {o.world : o \in {a \in AtomicOutcomes(x, y, apply_smoothing) :
                                                 a.result = r.result}}]
                  ELSE pending
    /\ UNCHANGED <<calibrated, homography_matrix, camera_corners, projector_corners,
                   created_at, calibration_file, last_position_time,
                   last_transformed_pos>>

\* gesture_data.get('position', {}).get('z', 0)
PositionZ(gesture_data) ==
    IF "position" \in DOMAIN gesture_data
    THEN IF "z" \in DOMAIN gesture_data.position THEN gesture_data.position.z ELSE 0
    ELSE 0

\* A response whose isPinching is false whatever the type: the response the
\* property C25_ResponseFields must tell from the real one.
BuildGestureResponseNeverPinching(gesture_data, proj_x, proj_y) ==
    [key \in DOMAIN gesture_data \cup
             {"position", "isPinching", "source", "coordinate_space"} |->
        CASE key = "position" ->
                 [x |-> proj_x, y |-> proj_y, z |-> PositionZ(gesture_data)]
          [] key = "isPinching" -> FALSE
          [] key = "source" -> "projector"
          [] key = "coordinate_space" -> "projector"
          [] OTHER -> gesture_data[key]]

\* _build_gesture_response(gesture_data, proj_x, proj_y): a copy of the dict
\* with position replaced and three keys set.
BuildGestureResponse(gesture_data, proj_x, proj_y) ==
    [key \in DOMAIN gesture_data \cup
             {"position", "isPinching", "source", "coordinate_space"} |->
        CASE key = "position" ->
                 [x |-> proj_x, y |-> proj_y, z |-> PositionZ(gesture_data)]
          [] key = "isPinching" ->
                 ("type" \in DOMAIN gesture_data /\ gesture_data.type = "pinch")
          [] key = "source" -> "projector"
          [] key = "coordinate_space" -> "projector"
          [] OTHER -> gesture_data[key]]

\* The camera coordinates, in tenths, of a gesture position in thousandths
\* of the [-1, 1] range: (x + 1) / 2 and (1 - y) / 2.
CameraX(pos) == (pos.x + 1000) \div 200
CameraY(pos) == (1000 - pos.y) \div 200

\* A throttle that is never closed: the test the property
\* C23_ThrottleReusesLastPosition must tell from the real one.
ThrottleNever(current_time) == FALSE

\* current_time - self.last_position_time < self.position_throttle_ms
Throttled(current_time) == current_time - last_position_time < position_throttle_ms

\* A first guard that lets an uncalibrated engine through: the guard the
\* property C24_InputReturnedUntouched must tell from the real one.
ReturnsInputWithoutPosition(gesture_data) == "position" \notin DOMAIN gesture_data

\* if not self.calibrated or 'position' not in gesture_data: return gesture_data
ReturnsInput(gesture_data) == ~calibrated \/ "position" \notin DOMAIN gesture_data

\* transform_gesture(gesture_data), dt ms after the last event.
TransformGesture(gesture_data, dt) ==
    /\ EngineCallAt(dt)
    /\ LET call == [NoEngineCall EXCEPT !.op = "transform_gesture",
                                        !.before = EngineState,
                                        !.smoothed_since_change = SmoothedAfter(FALSE),
                                        !.gesture = gesture_data]
       IN  IF ReturnsInput(gesture_data)
           THEN /\ engine_call' = [call EXCEPT !.returned = gesture_data]
                /\ UNCHANGED <<smoother, last_position_time, last_transformed_pos>>
           ELSE IF Throttled(now') /\ last_transformed_pos # NoPoint
           THEN /\ engine_call' =
                       [call EXCEPT !.throttled = TRUE, !.success = TRUE,
                                    !.result = last_transformed_pos,
                                    !.returned =
                                        BuildGestureResponse(gesture_data,
                                                             last_transformed_pos[1],
                                                             last_transformed_pos[2])]
                /\ UNCHANGED <<smoother, last_position_time, last_transformed_pos>>
           ELSE \E r \in {TransformPointOn(calibrated, homography_matrix, smoother,
                                           CameraX(gesture_data.position),
                                           CameraY(gesture_data.position), TRUE)} :
                    /\ smoother' = r.smoother
                    /\ IF r.result = NoPoint
                       THEN /\ engine_call' =
                                   [call EXCEPT !.returned = gesture_data,
                                                !.point = <<CameraX(gesture_data.position),
                                                            CameraY(gesture_data.position)>>]
                            /\ UNCHANGED <<last_position_time, last_transformed_pos>>
                       ELSE /\ last_transformed_pos' = r.result
                            /\ last_position_time' = now'
                            /\ engine_call' =
                                   [call EXCEPT !.success = TRUE,
                                                !.smoothed_since_change =
                                                    SmoothedAfter(TRUE),
                                                !.result = r.result,
                                                !.projected = r.projected,
                                                !.point = <<CameraX(gesture_data.position),
                                                            CameraY(gesture_data.position)>>,
                                                !.returned =
                                                    BuildGestureResponse(gesture_data,
                                                                         r.result[1],
                                                                         r.result[2])]
    /\ UNCHANGED <<calibrated, homography_matrix, camera_corners, projector_corners,
                   created_at, calibration_file, pending>>

\* PositionSmoother.smooth(x, y) called on the smoother directly.
SmoothCall(x, y, dt) ==
    /\ EngineCallAt(dt)
    /\ \E s \in {Smooth(smoother, x, y)} :
           /\ smoother' = s.smoother
           /\ engine_call' = [NoEngineCall EXCEPT !.op = "smooth",
                                                  !.smoothed_since_change =
                                                      SmoothedAfter(TRUE),
                                                  !.before = EngineState,
                                                  !.projected = <<x, y>>,
                                                  !.result = s.result]
    /\ UNCHANGED <<calibrated, homography_matrix, camera_corners, projector_corners,
                   created_at, calibration_file, last_position_time,
                   last_transformed_pos, pending>>

\* PositionSmoother.reset() called on the smoother directly.
ResetCall(dt) ==
    /\ EngineCallAt(dt)
    /\ smoother' = SmootherReset
    /\ engine_call' = [NoEngineCall EXCEPT !.op = "reset", !.before = EngineState,
                                           !.smoothed_since_change = SmoothedAfter(FALSE)]
    /\ UNCHANGED <<calibrated, homography_matrix, camera_corners, projector_corners,
                   created_at, calibration_file, last_position_time,
                   last_transformed_pos, pending>>

\* ------------------------------------------------------------ the service

\* No shared value has been read or written yet.
NoAccess == <<>>

\* One read, write or later use of a field shared between the worker thread
\* and the request handlers, and whether self.lock is held meanwhile.
Access(thread, value, kind, holds_lock) ==
    [thread |-> thread, value |-> value, kind |-> kind, holds_lock |-> holds_lock]

\* self.latest_frame = None, and what the worker stores there: frame.copy().
NoFrame == "None"
Frame == "frame"

\* GestureRecognitionService.__init__ (the model file is present, so
\* self.landmarker is set).
ServiceConstructed ==
    /\ is_tracking = FALSE
    /\ tracking_thread = "None"
    /\ camera = "None"
    /\ camera_error = "None"
    /\ current_gesture = NoGesture
    /\ gesture_history = <<>>
    /\ motion_history = <<>>
    /\ two_hand_distance_history = <<>>
    /\ last_pushed_gesture = NoGesture
    /\ last_push_time = 0
    /\ last_gesture_type = "None"
    /\ gesture_hold_time = [t \in {} |-> 0]
    /\ last_pinch_time = None
    /\ last_pinch_distance = None
    /\ previous_finger_count = None
    /\ worker = "none"
    /\ stopping = FALSE
    /\ now = StartTime
    /\ push_call = NoPushCall
    /\ analysis = NoAnalysis
    /\ other_worker = "none"
    /\ threads = [tracked |-> "none", joined |-> "none", answer |-> "none"]
    /\ lock = "free"
    /\ latest_frame = NoFrame
    /\ handler = "idle"
    /\ access = NoAccess

\* The service and an engine that finds no calibration file.
Init == ServiceConstructed /\ EngineConstructed(NoFile)

WorkerAlive == worker \in {"starting", "running", "frame"}

\* start_tracking, answered 'started'.  (A request that arrives while an
\* earlier worker is still running is left out.)
StartTracking ==
    /\ ~is_tracking
    /\ ~WorkerAlive
    /\ is_tracking' = TRUE
    /\ tracking_thread' = "thread"
    /\ worker' = "starting"
    /\ threads' = [tracked |-> "worker",
                   joined |-> IF threads.joined = "worker" THEN "gone"
                              ELSE threads.joined,
                   answer |-> "started"]
    /\ UNCHANGED <<camera, camera_error, current_gesture, two_hand_distance_history,
                   stopping, gate_vars, resolver_vars, now, push_call, analysis,
                   engine_vars, other_worker, lock_vars>>

\* start_tracking, answered 'started', while the worker of an earlier
\* start_tracking is still running (its stop_tracking gave up the join): a
\* second thread runs _track_gestures, and the earlier one is no longer
\* referred to by tracking_thread.  Requests are served one at a time.
StartTrackingBesideWorker ==
    /\ ~is_tracking
    /\ ~stopping
    /\ WorkerAlive
    /\ other_worker \notin {"starting", "running", "frame"}
    /\ is_tracking' = TRUE
    /\ tracking_thread' = "thread"
    /\ other_worker' = worker
    /\ worker' = "starting"
    /\ threads' = [tracked |-> "worker", joined |-> "none", answer |-> "started"]
    /\ UNCHANGED <<camera, camera_error, current_gesture, two_hand_distance_history,
                   stopping, gate_vars, resolver_vars, now, push_call, analysis,
                   engine_vars, lock_vars>>

\* start_tracking while is_tracking is set, answered 'already_running'
\* (main.py 91-92).
StartTrackingAlreadyRunning ==
    /\ is_tracking
    /\ threads' = [threads EXCEPT !.answer = "already_running"]
    /\ UNCHANGED <<is_tracking, tracking_thread, camera, camera_error, current_gesture,
                   two_hand_distance_history, stopping, worker, gate_vars, resolver_vars,
                   now, push_call, analysis, engine_vars, other_worker, lock_vars>>

\* stop_tracking up to its join (main.py 102-109).
StopTracking ==
    /\ ~stopping
    /\ is_tracking' = FALSE
    /\ camera' = "None"
    /\ stopping' = (tracking_thread # "None")
    /\ threads' = [threads EXCEPT !.joined = IF tracking_thread # "None"
                                             THEN threads.tracked ELSE "none",
                                  !.answer = IF tracking_thread # "None"
                                             THEN "none" ELSE "stopped"]
    /\ UNCHANGED <<tracking_thread, camera_error, current_gesture,
                   two_hand_distance_history, worker, gate_vars, resolver_vars, now,
                   push_call, analysis,
                   engine_vars, other_worker, lock_vars>>

\* The thread a stop_tracking is joining has not finished.
JoinedAlive ==
    \/ threads.joined = "worker" /\ WorkerAlive
    \/ threads.joined = "other" /\ other_worker \in {"starting", "running", "frame"}

\* stop_tracking from the return of join to its own (main.py 109-112).
StopTrackingReturns ==
    /\ tracking_thread' = "None"
    /\ stopping' = FALSE
    /\ threads' = [tracked |-> "none", joined |-> "none", answer |-> "stopped"]
    /\ UNCHANGED <<is_tracking, camera, camera_error, current_gesture,
                   two_hand_distance_history, worker, gate_vars, resolver_vars, now,
                   push_call, analysis,
                   engine_vars, other_worker, lock_vars>>

\* stop_tracking from the return of join (main.py 109-112), the worker having
\* finished within the join's timeout.
StopTrackingJoined ==
    /\ stopping
    /\ ~JoinedAlive
    /\ StopTrackingReturns

\* A join that never gives up: the wait the property C30_StopReturns must
\* tell from the real one.
JoinWithoutTimeout == FALSE

\* join(timeout=2) returns after two seconds whatever the thread does.
JoinTimesOut == TRUE

\* stop_tracking from the return of join, the worker still running when the
\* timeout ends.
StopTrackingTimedOut ==
    /\ stopping
    /\ JoinedAlive
    /\ JoinTimesOut
    /\ StopTrackingReturns

\* The scheduler turns to the other thread that runs _track_gestures: from
\* here on `worker` is where that thread is.
Yield ==
    /\ worker # other_worker
    /\ worker' = other_worker
    /\ other_worker' = worker
    /\ threads' = [tracked |-> CASE threads.tracked = "worker" -> "other"
                                 [] threads.tracked = "other" -> "worker"
                                 [] OTHER -> threads.tracked,
                   joined |-> CASE threads.joined = "worker" -> "other"
                                [] threads.joined = "other" -> "worker"
                                [] OTHER -> threads.joined,
                   answer |-> threads.answer]
    /\ UNCHANGED <<is_tracking, tracking_thread, camera, camera_error, current_gesture,
                   two_hand_distance_history, stopping, gate_vars, resolver_vars, now,
                   push_call, analysis, engine_vars, lock_vars>>

\* _track_gestures up to the while loop (main.py 118-148).
WorkerOpenCamera(opened) ==
    /\ worker = "starting"
    /\ IF opened
       THEN /\ camera' = "open"
            /\ worker' = "running"
            /\ UNCHANGED camera_error
       ELSE /\ camera' = "released"
            /\ worker' = "exited"
            /\ camera_error' = "Camera could not be opened"
    /\ UNCHANGED <<is_tracking, tracking_thread, current_gesture,
                   two_hand_distance_history, stopping, gate_vars, resolver_vars, now,
                   push_call, analysis,
                   engine_vars, thread_vars, lock_vars>>

\* while self.is_tracking (main.py 150), and the finally clause when it ends
\* the loop (main.py 260-262).
WorkerLoopTest ==
    /\ worker = "running"
    /\ IF is_tracking
       THEN worker' = "frame" /\ UNCHANGED camera
       ELSE /\ worker' = "exited"
            /\ camera' = IF camera = "None" THEN "None" ELSE "released"
    /\ UNCHANGED <<is_tracking, tracking_thread, camera_error, current_gesture,
                   two_hand_distance_history, stopping, gate_vars, resolver_vars, now,
                   push_call, analysis,
                   engine_vars, thread_vars, lock_vars>>

\* An exception reaches the except clause of _track_gestures (main.py
\* 256-262): the loop is over.
WorkerCrashes(exception) ==
    /\ camera_error' = exception
    /\ UNCHANGED latest_frame
    /\ camera' = IF camera = "None" THEN "None" ELSE "released"
    /\ worker' = "exited"

\* The iteration ends at time.sleep(0.01) and the loop goes on (main.py 254).
WorkerContinues ==
    /\ worker' = "running"
    /\ UNCHANGED <<camera, camera_error>>

\* with self.lock: self.latest_frame = frame.copy() (main.py 249-250): the
\* worker waits while a handler holds the lock.
WorkerStoresFrame ==
    /\ lock = "free"
    /\ latest_frame' = Frame

\* One iteration starts: the frame is read and stamped dt ms after the last.
FrameAt(dt) ==
    /\ worker = "frame"
    /\ now + dt <= MaxTime
    /\ now' = now + dt
    /\ UNCHANGED <<engine_vars, thread_vars, lock, handler>>

\* An iteration whose self.camera is None (cleared by stop_tracking): the
\* read raises AttributeError.
FrameWithoutCamera(dt) ==
    /\ FrameAt(dt)
    /\ camera = "None"
    /\ WorkerCrashes("AttributeError")
    /\ access' = <<>>
    /\ UNCHANGED <<is_tracking, tracking_thread, current_gesture,
                   two_hand_distance_history, stopping, gate_vars, resolver_vars,
                   push_call, analysis>>

\* An iteration whose read fails (ret is False): main.py 154-194, short of the
\* frame timeout.
FrameReadFailed(dt) ==
    /\ FrameAt(dt)
    /\ camera # "None"
    /\ WorkerContinues
    /\ access' = <<>>
    /\ UNCHANGED latest_frame
    /\ UNCHANGED <<is_tracking, tracking_thread, current_gesture,
                   two_hand_distance_history, stopping, gate_vars, resolver_vars,
                   push_call, analysis>>

\* FrameNoHand that also forgets the remembered pinch and finger count: the
\* iteration the property C39_NoHandKeepsResolverState must tell from the
\* real one.
FrameNoHandForgetsPinch(dt) ==
    /\ FrameAt(dt)
    /\ camera = "open"
    /\ current_gesture' = NoGesture
    /\ gesture_history' = <<>>
    /\ motion_history' = <<>>
    /\ last_pinch_time' = None
    /\ last_pinch_distance' = None
    /\ previous_finger_count' = None
    /\ analysis' = NotAnalysed(now')
    /\ WorkerStoresFrame
    /\ access' = <<Access("worker", "current_gesture", "write", FALSE),
                   Access("worker", "latest_frame", "write", TRUE)>>
    /\ WorkerContinues
    /\ UNCHANGED <<is_tracking, tracking_thread, two_hand_distance_history, stopping,
                   gate_vars, last_gesture_type, gesture_hold_time, push_call>>

\* An iteration in which the landmarker finds no hand (main.py 243-247).
FrameNoHand(dt) ==
    /\ FrameAt(dt)
    /\ camera = "open"
    /\ current_gesture' = NoGesture
    /\ gesture_history' = <<>>
    /\ motion_history' = <<>>
    /\ analysis' = NotAnalysed(now')
    /\ WorkerStoresFrame
    /\ access' = <<Access("worker", "current_gesture", "write", FALSE),
                   Access("worker", "latest_frame", "write", TRUE)>>
    /\ WorkerContinues
    /\ UNCHANGED <<is_tracking, tracking_thread, two_hand_distance_history, stopping,
                   gate_vars, last_gesture_type, gesture_hold_time, last_pinch_time,
                   last_pinch_distance, previous_finger_count, push_call>>

\* The end of an iteration that classified gesture_data: store it and push it
\* (main.py 239-242).
StoreAndPush(gesture_data, timestamp_ms, answer) ==
    /\ current_gesture' = gesture_data
    /\ PushGestureToBackend(gesture_data, timestamp_ms, answer)
    /\ IF push_call'.raised
       THEN /\ WorkerCrashes(answer.class)
            /\ access' = <<Access("worker", "current_gesture", "write", FALSE)>>
       ELSE /\ WorkerStoresFrame
            /\ access' = <<Access("worker", "current_gesture", "write", FALSE),
                           Access("worker", "latest_frame", "write", TRUE)>>
            /\ WorkerContinues

\* An iteration in which the landmarker finds one hand (main.py 232-242).
FrameOneHand(p, answer, dt) ==
    /\ FrameAt(dt)
    /\ camera = "open"
    /\ \E r \in {AnalyzeGesture(HandLandmarks(p), now')} :
           /\ Resolve(r, now')
           /\ IF r.raised # "None"
              THEN /\ WorkerCrashes(r.raised)
                   /\ UNCHANGED <<current_gesture, gate_vars, push_call, access>>
              ELSE StoreAndPush([r.gesture_data EXCEPT !.hand = "single"], now', answer)
    /\ UNCHANGED <<is_tracking, tracking_thread, two_hand_distance_history, stopping>>

\* An iteration in which the landmarker finds two hands (main.py 216-231, 239-242).
FrameTwoHands(p1, p2, answer, dt) ==
    /\ FrameAt(dt)
    /\ camera = "open"
    /\ \E lm1 \in {HandLandmarks(p1)}, lm2 \in {HandLandmarks(p2)} :
       \E two \in {DetectTwoHandGesture(lm1, lm2, now')}, r \in {AnalyzeGesture(lm1, now')} :
       LET drawRaises == DrawLandmarksRaises(lm1) \/ DrawLandmarksRaises(lm2)
       IN  /\ two_hand_distance_history' = two.history
           /\ IF two.raised # "None"
              THEN /\ WorkerCrashes(two.raised)
                   /\ analysis' = NotAnalysed(now')
                   /\ UNCHANGED <<current_gesture, gate_vars, resolver_vars,
                                  push_call, access>>
              ELSE IF two.type # "None"
              THEN /\ analysis' = NotAnalysed(now')
                   /\ UNCHANGED resolver_vars
                   /\ IF drawRaises
                      THEN /\ WorkerCrashes("IndexError")
                           /\ UNCHANGED <<current_gesture, gate_vars, push_call, access>>
                      ELSE StoreAndPush(TwoHandGesture(two.type, lm1, lm2, now'), now', answer)
              ELSE /\ Resolve(r, now')
                   /\ IF r.raised # "None"
                      THEN /\ WorkerCrashes(r.raised)
                           /\ UNCHANGED <<current_gesture, gate_vars, push_call, access>>
                      ELSE StoreAndPush([r.gesture_data EXCEPT !.hand = "both"], now', answer)
    /\ UNCHANGED <<is_tracking, tracking_thread, stopping>>

\* A direct call _push_gesture_to_backend(gesture_data, timestamp_ms) with a
\* gesture record of the given type, dt ms after the last call.
GateCall(type, answer, dt) ==
    /\ now + dt <= MaxTime
    /\ now' = now + dt
    /\ UNCHANGED <<engine_vars, thread_vars, lock_vars>>
    /\ PushGestureToBackend([type |-> type, position |-> Pt(0, 0), confidence |-> 85,
                             timestamp |-> now', hand |-> "single"], now', answer)
    /\ UNCHANGED <<service_vars, resolver_vars, analysis>>

\* A direct call _analyze_gesture(hand_landmarks, timestamp_ms) on the sample
\* of pose p, dt ms after the last call; an exception it raises reaches the
\* caller, who may call again.
AnalyzeCall(p, dt) ==
    /\ now + dt <= MaxTime
    /\ now' = now + dt
    /\ UNCHANGED <<engine_vars, thread_vars, lock_vars>>
    /\ \E r \in {AnalyzeGesture(HandLandmarks(p), now')} : Resolve(r, now')
    /\ UNCHANGED <<service_vars, gate_vars, push_call>>

\* What a request handler leaves alone.
HandlerFrame ==
    UNCHANGED <<service_vars, gate_vars, resolver_vars, now, push_call, analysis,
                engine_vars, thread_vars, latest_frame>>

\* get_current_gesture (main.py 765-766), called by a request handler: the
\* field is returned as it is, self.lock is not taken.
GetCurrentGesture ==
    /\ handler = "idle"
    /\ access' = <<Access("handler", "current_gesture", "read", lock = "handler")>>
    /\ UNCHANGED <<lock, handler>>
    /\ HandlerFrame

\* get_video_frame up to frame = self.latest_frame (main.py 805-812): the
\* lock is taken and the field is read.
GetVideoFrameAcquire ==
    /\ handler = "idle"
    /\ lock = "free"
    /\ lock' = "handler"
    /\ handler' = IF latest_frame = NoFrame THEN "returning" ELSE "holds frame"
    /\ access' = <<Access("handler", "latest_frame", "read", TRUE)>>
    /\ HandlerFrame

\* get_video_frame from the resize to cv2.imencode (main.py 814-824): the
\* frame is used inside the with block.
GetVideoFrameEncode ==
    /\ handler = "holds frame"
    /\ handler' = "returning"
    /\ access' = <<Access("handler", "latest_frame", "use", lock = "handler")>>
    /\ UNCHANGED lock
    /\ HandlerFrame

\* get_video_frame returns, which ends the with block (main.py 807, 825).
GetVideoFrameReturns ==
    /\ handler = "returning"
    /\ lock' = "free"
    /\ handler' = "idle"
    /\ access' = <<>>
    /\ HandlerFrame

\* ------------------------------------------------------------------ inputs

BasePose ==
    [n |-> 21, ext |-> {}, gap |-> 300, dy |-> 0, index_mcp |-> Pt(450, 600), shift |-> 0]

\* Thumb and index tips `gap` apart, the other three fingers extended.
Pinch(gap) == [BasePose EXCEPT !.ext = {"middle", "ring", "pinky"}, !.gap = gap]

Fist == BasePose
OpenPalm == [BasePose EXCEPT !.ext = Fingers]
\* Index and middle finger extended.
Peace == [BasePose EXCEPT !.ext = {"index", "middle"}]
\* The ring finger alone extended: a shape no gesture check accepts.
RingOnly == [BasePose EXCEPT !.ext = {"ring"}]
\* Corner lists for calibrate, in tenths.  Rectangle is the list of the
\* repository's tests; the sides of Vanishing that join its first and fourth
\* and its second and third corner meet in the camera's origin.
\* Coincident repeats its third corner, so only the test for overlapping
\* points rejects it.
Rectangle == <<Pt(1, 1), Pt(9, 1), Pt(9, 9), Pt(1, 9)>>
Vanishing == <<Pt(1, 2), Pt(2, 1), Pt(4, 2), Pt(2, 4)>>
ThreeCorners == <<Pt(1, 1), Pt(9, 1), Pt(9, 9)>>
Coincident == <<Pt(1, 1), Pt(9, 1), Pt(9, 9), Pt(9, 9)>>
Collinear == <<Pt(0, 0), Pt(3, 3), Pt(6, 6), Pt(9, 9)>>

\* Optional projector corner lists: None, and lists of three and of five.
DefaultTarget == [given |-> FALSE, points |-> NoCorners]
ThreeTargets == [given |-> TRUE, points |-> <<Pt(0, 0), Pt(10, 0), Pt(10, 10)>>]
FiveTargets ==
    [given |-> TRUE,
     points |-> <<Pt(0, 0), Pt(10, 0), Pt(10, 10), Pt(0, 10), Pt(5, 5)>>]

\* The file an earlier run of the engine left after calibrate(Rectangle).
SavedRectangle ==
    SaveCalibration(TRUE, ComputeHomography(Points(Rectangle), UnitSquare, 1),
                    Points(Rectangle), UnitSquare, 0)

\* A sample one landmark short.
Malformed == [BasePose EXCEPT !.n = 20]

\* The shifts the next sample of a hand in steady motion along x can have:
\* it enters the view at `entry`, picks one of `speeds` (thousandths per
\* frame) for its second sample and keeps it.
SteadyShifts(entry, speeds) ==
    LET n == Len(motion_history)
        last == motion_history[n].x - 500
    IN  IF n = 0 THEN {entry}
        ELSE IF n = 1 THEN {last + v : v \in speeds}
        ELSE {last + (motion_history[n].x - motion_history[n - 1].x)}

\* ---------------------------------------------------------- specifications

\* The lifecycle of the worker thread.
Lifecycle ==
    \/ StartTracking
    \/ StopTracking
    \/ StopTrackingJoined
    \/ \E opened \in BOOLEAN : WorkerOpenCamera(opened)
    \/ WorkerLoopTest

\* The service under frames 400 ms apart and every answer of the backend.
Next ==
    \/ Lifecycle
    \/ FrameWithoutCamera(400)
    \/ FrameReadFailed(400)
    \/ FrameNoHand(400)
    \/ \E p \in {Pinch(30), Fist, Malformed}, answer \in BackendAnswers :
          FrameOneHand(p, answer, 400)
    \/ \E p2 \in {[Fist EXCEPT !.shift = 300], [Fist EXCEPT !.shift = 100]} :
          FrameTwoHands(Fist, p2, Http200, 400)

Spec == Init /\ [][Next]_vars

\* The push gate called directly with every gesture type that matters to it.
GateTypes == {"fist", "wave", "unknown"}
GateDeltas == {50, 200}

NextGate ==
    \E type \in GateTypes, answer \in BackendAnswers, dt \in GateDeltas :
        GateCall(type, answer, dt)

SpecGate == Init /\ [][NextGate]_vars

\* The resolver called directly on a hand at rest that pinches at two
\* distances, with the gaps around the double-tap window.
ResolverPoses == {Pinch(30), Pinch(40)}
ResolverDeltas == {100, 200, 500, 800, 1000}

NextResolver ==
    \E p \in ResolverPoses, dt \in ResolverDeltas : AnalyzeCall(p, dt)

SpecResolver == Init /\ [][NextResolver]_vars

\* The resolver called directly every 50 ms on a hand in steady motion along
\* x, pinching or closed.
MotionPoses == {Pinch(30), Fist}
MotionSpeeds == {10, 20}

NextMotion ==
    \E p \in MotionPoses, shift \in SteadyShifts(-300, MotionSpeeds) :
        AnalyzeCall([p EXCEPT !.shift = shift], 50)

SpecMotion == Init /\ [][NextMotion]_vars

\* The resolver called directly every 200 ms on a hand at rest that changes
\* its shape between samples.
ShapePoses == {Fist, OpenPalm, Peace, RingOnly, Pinch(30)}

NextShapes ==
    \E p \in ShapePoses : AnalyzeCall(p, 200)

SpecShapes == Init /\ [][NextShapes]_vars

\* The engine alone: constructed on a file that is absent, unreadable or
\* left by an earlier run, then called every 250 ms.
CalibrationFiles == {NoFile, CorruptFile, SavedRectangle}
SourceLists == {Rectangle, Vanishing, ThreeCorners, Coincident, Collinear}
TargetLists == {DefaultTarget, ThreeTargets, FiveTargets}
CameraPoints == {<<0, 0>>, <<5, 5>>, <<6, 5>>, <<9, 9>>}
EngineDeltas == {250}

InitCalibration ==
    /\ ServiceConstructed
    /\ \E file \in CalibrationFiles : EngineConstructed(file)

NextCalibration ==
    \E dt \in EngineDeltas :
        \/ Construct(dt)
        \/ \E corners \in SourceLists, target \in TargetLists, sign \in {1, -1} :
           \E disk_ok \in BOOLEAN : Calibrate(corners, target, sign, disk_ok, dt)
        \/ \E disk_ok \in BOOLEAN : ClearCalibration(disk_ok, dt)
        \/ \E pt \in CameraPoints, apply_smoothing \in BOOLEAN :
               TransformPoint(pt[1], pt[2], apply_smoothing, dt)

SpecCalibration == InitCalibration /\ [][NextCalibration]_vars

\* The smoother alone, called every 250 ms on raw positions in thousandths.
\* (800, 500) and (680, 740) lie exactly 0.3 away from (500, 500), (801, 500)
\* just beyond.
SmootherPoints == {<<500, 500>>, <<800, 500>>, <<801, 500>>, <<680, 740>>, <<200, 100>>}

NextSmoother ==
    \/ \E pt \in SmootherPoints : SmoothCall(pt[1], pt[2], 250)
    \/ ResetCall(250)

SpecSmoother == Init /\ [][NextSmoother]_vars

\* Gesture dicts for transform_gesture, positions in thousandths of the
\* [-1, 1] range (multiples of 0.2, so that the camera coordinates fall on
\* tenths).  (0, 0) is the middle of the camera frame, (-1, 1) its origin,
\* where the matrix of Vanishing has divisor 0.
GestureAt(type, px, py) ==
    [type |-> type, position |-> [x |-> px, y |-> py, z |-> 50], confidence |-> 85]
GestureInputs ==
    {GestureAt("pinch", 0, 0), GestureAt("point", 200, 0), GestureAt("point", -1000, 1000),
     [type |-> "wave", confidence |-> 80],
     [type |-> "fist", position |-> [x |-> 0, y |-> 0, z |-> 50], source |-> "camera"]}

\* Calls 16 or 33 ms apart: two short gaps stay below the throttle, one long
\* gap reaches it.
GestureDeltas == {16, 33}
GestureMaxTime == 1100

\* The engine under transform_gesture, from an empty or a calibrated start.
InitGesture ==
    /\ ServiceConstructed
    /\ \E file \in {NoFile, SavedRectangle} : EngineConstructed(file)

NextGesture ==
    /\ now < GestureMaxTime
    /\ \/ \E g \in GestureInputs, dt \in GestureDeltas : TransformGesture(g, dt)
       \/ \E corners \in {Rectangle, Vanishing} :
              Calibrate(corners, DefaultTarget, 1, TRUE, 16)
       \/ ClearCalibration(TRUE, 16)

SpecGesture == InitGesture /\ [][NextGesture]_vars

\* The engine called by two threads, every 200 ms: one runs calibrate, whose
\* assignment of the matrix and whose later stores are two steps, the other
\* transform_point, which may run between the two.
InitConcurrent == ServiceConstructed /\ EngineConstructed(SavedRectangle)

NextConcurrent ==
    \/ \E corners \in {Rectangle, Vanishing} :
           CalibrateAssignsMatrix(corners, DefaultTarget, 1, 200)
    \/ CalibrateReturns(TRUE, 200)
    \/ \E pt \in CameraPoints, apply_smoothing \in BOOLEAN :
           TransformPoint(pt[1], pt[2], apply_smoothing, 200)

SpecConcurrent == InitConcurrent /\ [][NextConcurrent]_vars

\* The worker under frames 400 ms apart and a request handler that reads
\* the latest gesture and the latest frame while it runs.
NextLock ==
    \/ StartTracking
    \/ \E opened \in BOOLEAN : WorkerOpenCamera(opened)
    \/ WorkerLoopTest
    \/ FrameNoHand(400)
    \/ \E p \in {Fist, OpenPalm} : FrameOneHand(p, Http200, 400)
    \/ GetCurrentGesture
    \/ GetVideoFrameAcquire
    \/ GetVideoFrameEncode
    \/ GetVideoFrameReturns

SpecLock == Init /\ [][NextLock]_vars

\* Requests to start and stop, served one at a time, against a worker that
\* may outlast the join of stop_tracking and run on beside the worker of the
\* next start_tracking; frames 400 ms apart.
NextStop ==
    \/ ~stopping /\ StartTracking
    \/ StartTrackingBesideWorker
    \/ StartTrackingAlreadyRunning
    \/ StopTracking
    \/ StopTrackingJoined
    \/ StopTrackingTimedOut
    \/ Yield
    \/ \E opened \in BOOLEAN : WorkerOpenCamera(opened)
    \/ WorkerLoopTest
    \/ FrameWithoutCamera(400)
    \/ FrameReadFailed(400)
    \/ FrameNoHand(400)
    \/ FrameOneHand(Fist, Http200, 400)

SpecStop == Init /\ [][NextStop]_vars

\* The join of stop_tracking returns: when the worker has finished, or when
\* the two seconds are over.
SpecStopFair == SpecStop /\ WF_vars(StopTrackingJoined \/ StopTrackingTimedOut)

\* The three histories filled past their capacities: _analyze_gesture called
\* directly every 10 ms on a closed hand at rest before tracking starts, then
\* the worker under frames 20 ms apart that show two pointing hands (a
\* 'point_both' frame appends to the distance history and calls neither the
\* resolver nor anything that raises).
PointIndex == [BasePose EXCEPT !.ext = {"index"}]

NextBuffers ==
    \/ worker = "none" /\ AnalyzeCall(Fist, 10)
    \/ StartTracking
    \/ WorkerOpenCamera(TRUE)
    \/ WorkerLoopTest
    \/ FrameTwoHands(PointIndex, [PointIndex EXCEPT !.shift = 300], Http200, 20)

SpecBuffers == Init /\ [][NextBuffers]_vars

\* -------------------------------------------------------------- properties
\* push_call and analysis describe the latest call of the push gate and of
\* the resolver; a property of every call is an invariant over them.

\* C1: within an unbroken run of frames of one gesture type, a POST of that
\* type is followed by no other POST of that type before push_cooldown_ms
\* have passed.
C1_OnePostPerCooldown ==
    (push_call.posts = 1 /\ push_call.run_post # None)
        => push_call.timestamp - push_call.run_post >= push_cooldown_ms

\* C2: a gesture whose type differs from the type of the latest POST (or
\* that comes before any POST) is POSTed on its own frame.
C2_ChangeEmitsAtOnce ==
    (push_call.type # "None" /\ push_call.type # push_call.prev_post_type)
        => push_call.posts = 1

\* C3: every call that POSTs leaves the gesture and its timestamp in
\* last_pushed_gesture and last_push_time, whatever the backend answered.
C3_EmissionRecordsBaseline ==
    push_call.posts = 1
        => /\ last_pushed_gesture.type = push_call.type
           /\ last_pushed_gesture.timestamp = push_call.timestamp
           /\ last_push_time = push_call.timestamp

\* C4: every frame classified 'wave' is POSTed.
C4_WaveAlwaysEmits ==
    push_call.type = "wave" => push_call.posts = 1

C6_PushNeverStopsLoop ==
    [][push_call' # push_call
         => /\ push_call'.posts <= 1
            /\ ~push_call'.raised
            /\ worker' = "running"
            /\ camera_error' = camera_error]_vars

\* The loop has just pushed a gesture whose POST raised an exception that is
\* not a RequestException, and is still running.
C6_Witness ==
    /\ push_call.posts = 1
    /\ push_call.answer = PostOtherError
    /\ push_call.timestamp = now
    /\ worker = "running"
    /\ camera_error = "None"

\* C7: a frame whose classification raises leaves the worker in the loop,
\* with 'unknown' as the current gesture.
C7_ClassificationErrorSkipsFrame ==
    [][(analysis' # analysis /\ analysis'.raised \in {"IndexError", "UnboundLocalError"})
         => /\ worker' = "running"
            /\ current_gesture'.type = "unknown"]_vars

\* C8: a call of the resolver whose motion pattern is not 'none' returns the
\* pattern with confidence 0.85 and leaves last_pinch_time,
\* last_pinch_distance and previous_finger_count as it found them.
C8_MotionWinsOutright ==
    (analysis.raised = "None" /\ analysis.pattern # "none")
        => /\ analysis.type = analysis.pattern
           /\ analysis.confidence = 85
           /\ last_pinch_time = analysis.found_pinch_time
           /\ last_pinch_distance = analysis.found_pinch_distance
           /\ previous_finger_count = analysis.found_finger_count

\* A pinching sample, with an earlier pinch remembered, classified by its
\* motion pattern.
C8_Witness ==
    /\ analysis.raised = "None"
    /\ analysis.pattern # "none"
    /\ analysis.thumb_index_dist < PinchThreshold
    /\ analysis.found_pinch_time # None
    /\ analysis.type = analysis.pattern

\* C9 as the specification states it: with no motion pattern, a pinching
\* sample is 'double_tap' exactly when a pinch is remembered and lies g ms
\* back with 200 <= g < 800.
C9_DoubleTapWindowClosed ==
    (analysis.raised = "None" /\ analysis.pattern = "none"
     /\ analysis.thumb_index_dist < PinchThreshold)
        => (analysis.type = "double_tap"
              <=> /\ analysis.found_pinch_time # None
                  /\ 200 <= analysis.timestamp - analysis.found_pinch_time
                  /\ analysis.timestamp - analysis.found_pinch_time < 800)

\* C9 as the code has it: with no motion pattern, a pinching sample is
\* 'double_tap' exactly when a pinch is remembered and lies g ms back with
\* 200 < g < 800.
C9_DoubleTapWindowOpen ==
    (analysis.raised = "None" /\ analysis.pattern = "none"
     /\ analysis.thumb_index_dist < PinchThreshold)
        => (analysis.type = "double_tap"
              <=> /\ analysis.found_pinch_time # None
                  /\ 200 < analysis.timestamp - analysis.found_pinch_time
                  /\ analysis.timestamp - analysis.found_pinch_time < 800)

\* A pinching sample exactly 200 ms after the remembered pinch, not
\* classified 'double_tap'.
C9_Witness ==
    /\ analysis.raised = "None"
    /\ analysis.pattern = "none"
    /\ analysis.thumb_index_dist < PinchThreshold
    /\ analysis.found_pinch_time # None
    /\ analysis.timestamp - analysis.found_pinch_time = 200
    /\ analysis.type # "double_tap"

\* C10: with no motion pattern, a pinching sample that directly follows the
\* sample that recorded the pinch distance d0 is 'zoom_in' when its own
\* distance d exceeds 1.2 * d0 and 'zoom_out' when d is below 0.8 * d0.
C10_ZoomWhilePinching ==
    (/\ analysis.raised = "None"
     /\ analysis.pattern = "none"
     /\ analysis.thumb_index_dist < PinchThreshold
     /\ analysis.found_pinch_time # None
     /\ analysis.found_pinch_time = analysis.prev_timestamp
     /\ analysis.found_pinch_distance # None)
        => /\ 10 * analysis.thumb_index_dist > 12 * analysis.found_pinch_distance
                => analysis.type = "zoom_in"
           /\ 10 * analysis.thumb_index_dist < 8 * analysis.found_pinch_distance
                => analysis.type = "zoom_out"

\* The names of GESTURE_PRIORITY['high']: with no motion pattern, the types
\* of exactly the frames a high-priority gesture matched.
HighTypes == {GESTURE_PRIORITY.high[i] : i \in 1..Len(GESTURE_PRIORITY.high)}

\* C11: previous_finger_count is the extended-finger count of the latest
\* classified frame, and a frame with no motion pattern and no high-priority
\* match is 'grab' when its count is more than one below the count of the
\* classified frame before it, 'release' when it is more than one above.
C11_GrabReleaseFromPreviousFrame ==
    /\ previous_finger_count = analysis.returned_count
    /\ (/\ analysis.raised = "None"
        /\ analysis.pattern = "none"
        /\ analysis.type \notin HighTypes
        /\ analysis.prev_count # None)
          => /\ analysis.extended_count < analysis.prev_count - 1
                  => analysis.type = "grab"
             /\ analysis.extended_count > analysis.prev_count + 1
                  => analysis.type = "release"

\* All five flags of a finger_states record are false / true.
AllBent(fs) == \A finger \in Fingers : ~fs[finger]
AllExtended(fs) == \A finger \in Fingers : fs[finger]

\* C12 as the specification states it: whatever the earlier frames left, a
\* frame with no motion pattern and no pinch is 'fist' when all five flags
\* are false and 'open_palm' when all five are true.
C12_FistPalmAlways ==
    (/\ analysis.raised = "None"
     /\ analysis.pattern = "none"
     /\ analysis.thumb_index_dist >= PinchThreshold)
        => /\ AllBent(analysis.finger_states) => analysis.type = "fist"
           /\ AllExtended(analysis.finger_states) => analysis.type = "open_palm"

\* C12 as the code has it: such a frame with all flags false is 'grab'
\* when the previous_finger_count it finds is above 1 and 'fist' otherwise;
\* with all flags true it is 'release' when the count it finds is below 4
\* and 'open_palm' otherwise.
C12_FistPalmUnlessGrabRelease ==
    (/\ analysis.raised = "None"
     /\ analysis.pattern = "none"
     /\ analysis.thumb_index_dist >= PinchThreshold)
        => /\ AllBent(analysis.finger_states)
                => analysis.type =
                      IF /\ analysis.found_finger_count # None
                         /\ analysis.found_finger_count > 1
                      THEN "grab" ELSE "fist"
           /\ AllExtended(analysis.finger_states)
                => analysis.type =
                      IF /\ analysis.found_finger_count # None
                         /\ analysis.found_finger_count < 4
                      THEN "release" ELSE "open_palm"

\* A closed hand right after an open one, classified 'grab'.
C12_Witness ==
    /\ analysis.raised = "None"
    /\ analysis.pattern = "none"
    /\ analysis.thumb_index_dist >= PinchThreshold
    /\ AllBent(analysis.finger_states)
    /\ analysis.found_finger_count = 5
    /\ analysis.type = "grab"

\* C13: a result is 'unknown' exactly when no tier decided, its confidence
\* is 0.5 exactly when it is 'unknown', and every other result has
\* confidence 0.8, 0.85 or 0.9.
C13_UnknownIffUndecided ==
    analysis.raised = "None"
        => /\ analysis.type = "unknown" <=> ~analysis.detected
           /\ analysis.confidence = 50 <=> analysis.type = "unknown"
           /\ analysis.type # "unknown" => analysis.confidence \in {80, 85, 90}

\* A result no tier decided, after frames that a tier did decide.
C13_Witness ==
    /\ analysis.raised = "None"
    /\ ~analysis.detected
    /\ analysis.type = "unknown"
    /\ analysis.confidence = 50
    /\ analysis.found_type \notin {"None", "unknown"}

\* C14: once a call has returned, gesture_hold_time has one entry, keyed by
\* the type returned last, which is last_gesture_type, and its value is the
\* number of calls in a row that have returned that type.
C14_HoldTimeCountsRun ==
    analysis.returned_type # "None"
        => /\ DOMAIN gesture_hold_time = {analysis.returned_type}
           /\ last_gesture_type = analysis.returned_type
           /\ gesture_hold_time[analysis.returned_type] = analysis.returned_run

\* A type returned three times in a row after another type.
C14_Witness ==
    /\ analysis.raised = "None"
    /\ analysis.returned_run = 3
    /\ gesture_hold_time = (analysis.type :> 3)
    /\ analysis.timestamp - StartTime > 3 * 200

\* C15: homography_matrix is set exactly when calibrated is true.
C15_MatrixIffCalibrated ==
    (homography_matrix # NoMatrix) <=> calibrated

\* The latest call was calibrate, and the list of camera corners it was
\* given has not four points, or two points that coincide, or four points on
\* one line.
BadSourceCorners ==
    /\ engine_call.op = "calibrate"
    /\ LET c == engine_call.camera_corners
       IN  \/ Len(c) # 4
           \/ \E i, j \in 1..4 : i < j /\ c[i] = c[j]
           \/ \A i, j, k \in 1..4 :
                  (c[j].x - c[i].x) * (c[k].y - c[i].y)
                      = (c[j].y - c[i].y) * (c[k].x - c[i].x)

\* C16: calibrate with a list of camera corners that has not four points,
\* or two coincident points, or four collinear points fails and leaves
\* calibrated, the matrix, the corners, created_at, the smoother and the
\* file as they were.
C16_BadSourceCornersChangeNothing ==
    BadSourceCorners => ~engine_call.success /\ EngineState = engine_call.before

\* Such a call on an engine that was calibrated, with a point in its smoother.
C16_Witness ==
    /\ BadSourceCorners
    /\ ~engine_call.success
    /\ engine_call.before.calibrated
    /\ engine_call.before.smoother.last_smoothed # NoPoint
    /\ calibration_file.state = "saved"

\* C17: calibrate with four valid camera corners and a list of projector
\* corners that has not four points fails and leaves calibrated, the
\* matrix, the corners, created_at and the file as they were.
C17_BadTargetCornersChangeNothing ==
    (/\ engine_call.op = "calibrate"
     /\ Len(engine_call.camera_corners) = 4
     /\ ValidatePoints(Points(engine_call.camera_corners))
     /\ engine_call.projector_corners # NoCorners
     /\ Len(engine_call.projector_corners) # 4)
        => /\ ~engine_call.success
           /\ calibrated = engine_call.before.calibrated
           /\ homography_matrix = engine_call.before.homography_matrix
           /\ camera_corners = engine_call.before.camera_corners
           /\ projector_corners = engine_call.before.projector_corners
           /\ created_at = engine_call.before.created_at
           /\ calibration_file = engine_call.before.calibration_file

\* C18: after a calibrate that succeeds, the bottom-right entry of the
\* matrix is 1; a calibrate whose null vector has a bottom-right entry of
\* (numerically) zero fails and leaves the calibration as it was.
C18_NormalisedOrFailed ==
    engine_call.op = "calibrate"
        => /\ engine_call.success => BottomRightIsOne(homography_matrix)
           /\ (/\ Len(engine_call.camera_corners) = 4
               /\ ValidatePoints(Points(engine_call.camera_corners))
               /\ engine_call.projector_corners = NoCorners
               /\ NullVector(Points(engine_call.camera_corners), UnitSquare)[9] = 0)
                  => /\ ~engine_call.success
                     /\ EngineState = engine_call.before

\* C19: transform_point on an engine that is not calibrated, or for a point
\* whose homogeneous divisor is zero, returns None and leaves the smoother
\* as it was.
C19_NoneWhenUncalibratedOrDivisorZero ==
    (/\ engine_call.op = "transform_point"
     /\ \/ ~engine_call.before.calibrated
        \/ /\ engine_call.before.homography_matrix # NoMatrix
           /\ Divisor(engine_call.before.homography_matrix,
                      engine_call.point[1], engine_call.point[2]) = 0)
        => /\ engine_call.result = NoPoint
           /\ smoother = engine_call.before.smoother

\* A calibrated engine with a point in its smoother returns None for a point
\* whose divisor is zero.
C19_Witness ==
    /\ engine_call.op = "transform_point"
    /\ engine_call.before.calibrated
    /\ engine_call.before.homography_matrix # NoMatrix
    /\ Divisor(engine_call.before.homography_matrix,
               engine_call.point[1], engine_call.point[2]) = 0
    /\ engine_call.before.smoother.last_smoothed # NoPoint
    /\ engine_call.result = NoPoint

\* C20: every pair transform_point returns, smoothed or not, has both
\* coordinates in [0, 1].
C20_ResultsInUnitSquare ==
    (engine_call.op = "transform_point" /\ engine_call.result # NoPoint)
        => /\ engine_call.result[1] \in 0..1000
           /\ engine_call.result[2] \in 0..1000

\* A smoothed pair strictly between the point before and the new one.
C20_Witness ==
    /\ engine_call.op = "transform_point"
    /\ engine_call.apply_smoothing
    /\ engine_call.result # NoPoint
    /\ engine_call.before.smoother.last_smoothed # NoPoint
    /\ engine_call.result # engine_call.before.smoother.last_smoothed
    /\ engine_call.result[1] \in 1..999

\* The square of the distance between the position a smooth call was given
\* and the last_smoothed it found.
JumpSquared ==
    LET last == engine_call.before.smoother.last_smoothed
        p == engine_call.projected
    IN  (p[1] - last[1]) * (p[1] - last[1]) + (p[2] - last[2]) * (p[2] - last[2])

\* C21: smooth called with a position more than 0.3 away from last_smoothed
\* returns the previous last_smoothed and leaves last_smoothed as it was; a
\* position at most 0.3 away is accepted: the blend of it and last_smoothed
\* is returned and replaces last_smoothed.
C21_OutlierRejectedElseAccepted ==
    (engine_call.op = "smooth" /\ engine_call.before.smoother.last_smoothed # NoPoint)
        => LET last == engine_call.before.smoother.last_smoothed
               p == engine_call.projected
           IN  IF JumpSquared > 300 * 300
               THEN /\ engine_call.result = last
                    /\ smoother.last_smoothed = last
               ELSE /\ engine_call.result =
                           <<(3 * p[1] + 7 * last[1]) \div 10,
                             (3 * p[2] + 7 * last[2]) \div 10>>
                    /\ smoother.last_smoothed = engine_call.result

\* A position 0.301 away was rejected.
C21_Witness ==
    /\ engine_call.op = "smooth"
    /\ engine_call.before.smoother.last_smoothed = <<500, 500>>
    /\ engine_call.projected = <<801, 500>>
    /\ engine_call.result = <<500, 500>>
    /\ smoother.last_smoothed = <<500, 500>>

\* C22: every successful calibrate and every clear_calibration leaves the
\* smoother reset (no last_smoothed, empty history), and the first smoothed
\* transform_point after the calibration changed returns the clamped
\* projection itself, neither blended with nor rejected against an earlier
\* position.
C22_SmootherResetOnChange ==
    /\ ((engine_call.op = "calibrate" /\ engine_call.success)
            \/ engine_call.op = "clear_calibration")
           => smoother = [history |-> <<>>, last_smoothed |-> NoPoint]
    /\ (/\ engine_call.op = "transform_point"
        /\ engine_call.apply_smoothing
        /\ engine_call.result # NoPoint
        /\ engine_call.smoothed_since_change = 1)
           => engine_call.result = engine_call.projected

\* The first smoothed transform after a calibrate returned its projection.
C22_Witness ==
    /\ engine_call.op = "transform_point"
    /\ engine_call.apply_smoothing
    /\ engine_call.smoothed_since_change = 1
    /\ engine_call.before.camera_corners = Points(Vanishing)
    /\ engine_call.before.smoother = SmootherReset
    /\ engine_call.result = engine_call.projected
    /\ engine_call.result # NoPoint

\* The latest call was transform_gesture on a calibrated engine with a
\* gesture that has a position.
GestureTransformRequested ==
    /\ engine_call.op = "transform_gesture"
    /\ engine_call.before.calibrated
    /\ "position" \in DOMAIN engine_call.gesture

\* C23: a transform_gesture less than 33 ms after the last call that
\* computed a transform returns the position that call left, without calling
\* transform_point, and leaves the smoother and last_position_time as they
\* were; a call 33 ms or more after it calls transform_point and, when that
\* yields a position, records the time and the position.
C23_ThrottleReusesLastPosition ==
    GestureTransformRequested =>
        LET before == engine_call.before
        IN  IF now - before.last_position_time < 33
            THEN before.last_transformed_pos # NoPoint =>
                     /\ engine_call.point = NoPoint
                     /\ engine_call.returned.position.x = before.last_transformed_pos[1]
                     /\ engine_call.returned.position.y = before.last_transformed_pos[2]
                     /\ smoother = before.smoother
                     /\ last_position_time = before.last_position_time
                     /\ last_transformed_pos = before.last_transformed_pos
            ELSE /\ engine_call.point # NoPoint
                 /\ engine_call.result # NoPoint =>
                        /\ last_position_time = now
                        /\ last_transformed_pos = engine_call.result
                        /\ engine_call.returned.position.x = engine_call.result[1]
                        /\ engine_call.returned.position.y = engine_call.result[2]

\* A call 32 ms after the last computed transform, with a gesture elsewhere,
\* returned the cached position.
C23_Witness ==
    /\ GestureTransformRequested
    /\ now - engine_call.before.last_position_time = 32
    /\ engine_call.gesture = GestureAt("point", 200, 0)
    /\ engine_call.before.last_transformed_pos = <<500, 500>>
    /\ engine_call.returned.position.x = 500
    /\ engine_call.point = NoPoint

\* transform_point was called by the latest transform_gesture and returned
\* None: the divisor of the gesture's camera point is 0.
TransformYieldedNone ==
    /\ GestureTransformRequested
    /\ engine_call.point # NoPoint
    /\ Divisor(engine_call.before.homography_matrix,
               engine_call.point[1], engine_call.point[2]) = 0

\* C24: when the engine is uncalibrated, or the gesture has no position, or
\* transform_point yields None, transform_gesture returns the gesture it was
\* given (the same fields, no projector field added) and changes neither the
\* smoother nor last_position_time nor the cached position.
C24_InputReturnedUntouched ==
    (/\ engine_call.op = "transform_gesture"
     /\ \/ ~engine_call.before.calibrated
        \/ "position" \notin DOMAIN engine_call.gesture
        \/ TransformYieldedNone)
        => /\ engine_call.returned = engine_call.gesture
           /\ DOMAIN engine_call.returned = DOMAIN engine_call.gesture
           /\ smoother = engine_call.before.smoother
           /\ last_position_time = engine_call.before.last_position_time
           /\ last_transformed_pos = engine_call.before.last_transformed_pos

\* transform_point yielded None for a gesture at the camera origin, after an
\* earlier gesture had left a position in the smoother and in the cache.
C24_Witness ==
    /\ TransformYieldedNone
    /\ engine_call.returned = GestureAt("point", -1000, 1000)
    /\ smoother.last_smoothed # NoPoint
    /\ last_transformed_pos # NoPoint

\* The fields only _build_gesture_response sets.
ProjectorFields == {"position", "isPinching", "coordinate_space"}

\* The latest transform_gesture returned a transformed record.
GestureTransformed ==
    /\ GestureTransformRequested
    /\ engine_call.success

\* What the response of the latest transform_gesture must hold whatever
\* else it holds: the projected position with the input's z, isPinching and
\* coordinate_space.
ResponseSetsProjectorFields ==
    /\ engine_call.returned.position =
           [x |-> last_transformed_pos[1], y |-> last_transformed_pos[2],
            z |-> engine_call.gesture.position.z]
    /\ engine_call.returned.isPinching = (engine_call.gesture.type = "pinch")
    /\ engine_call.returned.coordinate_space = "projector"

\* C25 as stated: on a calibrated engine whose transform succeeds, the
\* response holds the projected position, isPinching true exactly for type
\* 'pinch', coordinate_space 'projector', and every other field of the input
\* with the input's value.
C25_EveryOtherFieldPreserved ==
    GestureTransformed =>
        /\ ResponseSetsProjectorFields
        /\ \A key \in DOMAIN engine_call.gesture \ ProjectorFields :
               engine_call.returned[key] = engine_call.gesture[key]

\* C25, amended: the response also holds source = 'projector', whatever
\* source the input carried; every field of the input other than position,
\* isPinching, coordinate_space and source keeps the input's value.
C25_ResponseFields ==
    GestureTransformed =>
        /\ ResponseSetsProjectorFields
        /\ engine_call.returned.source = "projector"
        /\ \A key \in DOMAIN engine_call.gesture \ (ProjectorFields \cup {"source"}) :
               engine_call.returned[key] = engine_call.gesture[key]
        /\ DOMAIN engine_call.returned =
               DOMAIN engine_call.gesture \cup ProjectorFields \cup {"source"}

\* A pinch was transformed: isPinching is set and confidence is the input's.
C25_Witness ==
    /\ GestureTransformed
    /\ engine_call.gesture = GestureAt("pinch", 0, 0)
    /\ engine_call.returned.isPinching
    /\ engine_call.returned.confidence = 85
    /\ engine_call.returned.position = [x |-> 500, y |-> 500, z |-> 50]

\* C26: a new ProjectionCalibration constructed on the same file right after
\* a calibrate that returned success is calibrated, with the same matrix
\* (hence the same transform of every point) and the same corners; one
\* constructed right after clear_calibration is uncalibrated.
C26_NewInstanceAgrees ==
    [][engine_call'.op = "construct" =>
           /\ (engine_call.op = "calibrate" /\ engine_call.success)
                  => /\ calibrated'
                     /\ homography_matrix' = homography_matrix
                     /\ camera_corners' = camera_corners
                     /\ projector_corners' = projector_corners
           /\ engine_call.op = "clear_calibration" => ~calibrated']_vars

\* C27: the result of a transform_point that runs while a calibrate is under
\* way is the result the call would have had wholly before that calibrate
\* (old flag, old matrix, old smoother) or wholly after it (new matrix,
\* smoother reset).
C27_TransformsSeeOneState ==
    engine_call.op = "transform_point"
        => engine_call.result \in engine_call.atomic_results

\* C28: stop_tracking does not clear the camera handle while the worker is
\* inside an iteration that uses it, and the worker never ends with the
\* error of reading a handle that stop_tracking cleared.
C28_CameraHeldForWorker ==
    /\ worker = "frame" => camera # "None"
    /\ camera_error # "AttributeError"

\* C29: every read and every write of current_gesture and of latest_frame by
\* the worker or by a request handler is made while self.lock is held, and
\* the value read is used only after the lock has been given back.
C29_SharedValuesUnderLock ==
    \A i \in DOMAIN access :
        /\ access[i].kind \in {"read", "write"} => access[i].holds_lock
        /\ access[i].kind = "use" => ~access[i].holds_lock

Front(h) == SubSeq(h, 1, Len(h) - 1)

\* One step of a buffer of capacity cap from h to after: it is left alone,
\* emptied, or one sample is appended, which drops exactly the oldest sample
\* of a full buffer and keeps the others in their order.
BufferStep(h, after, cap) ==
    /\ Len(after) <= cap
    /\ \/ after = h
       \/ after = <<>>
       \/ /\ Len(after) >= 1
          /\ Front(after) = IF Len(h) = cap THEN Tail(h) ELSE h

\* C31 as stated: every history holds at most 20 samples, an append to a
\* full history drops exactly its oldest sample, and the samples stay in
\* insertion order.
C31_BuffersHoldTwenty ==
    [][/\ BufferStep(gesture_history, gesture_history', 20)
       /\ BufferStep(motion_history, motion_history', 20)
       /\ BufferStep(two_hand_distance_history, two_hand_distance_history', 20)]_vars

\* C31, amended: the same with the capacities the deques are built with:
\* 30 for gesture_history, 50 for motion_history, 20 for the inter-hand
\* distance history.
C31_BuffersBoundedInOrder ==
    [][/\ BufferStep(gesture_history, gesture_history', 30)
       /\ BufferStep(motion_history, motion_history', 50)
       /\ BufferStep(two_hand_distance_history, two_hand_distance_history', 20)]_vars

\* The 51st sample has pushed the first one out of motion_history, the
\* position history has lost its first 21, and the distance history is full.
C31_Witness ==
    /\ Len(motion_history) = 50
    /\ motion_history[1].timestamp = StartTime + 20
    /\ motion_history[50].timestamp = StartTime + 510
    /\ Len(gesture_history) = 30
    /\ gesture_history[1] = motion_history[21]
    /\ Len(two_hand_distance_history) = 20

\* C32: a pinch frame with no motion pattern that does not complete a
\* double-tap stores its own timestamp in last_pinch_time, a frame classified
\* 'double_tap' clears last_pinch_time, and a pinch frame analysed while
\* last_gesture_type is 'double_tap' is not classified 'double_tap'.
C32_DoubleTapNeverRepeats ==
    (/\ analysis.raised = "None"
     /\ analysis.pattern = "none"
     /\ analysis.thumb_index_dist < PinchThreshold)
    => /\ analysis.type = "double_tap" => last_pinch_time = None
       /\ analysis.type # "double_tap" => last_pinch_time = analysis.timestamp
       /\ analysis.found_type = "double_tap" =>
              /\ analysis.found_pinch_time = None
              /\ analysis.type # "double_tap"

\* A pinch frame analysed directly after a 'double_tap', inside what would
\* have been the double-tap window of that frame.
C32_Witness ==
    /\ analysis.raised = "None"
    /\ analysis.pattern = "none"
    /\ analysis.thumb_index_dist < PinchThreshold
    /\ analysis.found_type = "double_tap"
    /\ DoubleTapWindow(analysis.timestamp - analysis.prev_timestamp)
    /\ analysis.type # "double_tap"
    /\ last_pinch_time = analysis.timestamp

\* C33: at most one thread is inside the tracking loop of _track_gestures at
\* any time, whatever the order of the start_tracking and stop_tracking
\* calls, a stop_tracking whose join timed out included.
C33_OneWorkerInLoop ==
    ~(/\ worker \in {"running", "frame"}
      /\ other_worker \in {"running", "frame"})

\* C34: is_tracking is set only while a thread that runs _track_gestures is
\* alive, so start_tracking answers 'already_running' only beside a living
\* worker.
C34_TrackingOnlyWhileAlive ==
    LET alive == WorkerAlive \/ other_worker \in {"starting", "running", "frame"}
    IN  /\ is_tracking => alive
        /\ threads.answer = "already_running" => alive

\* C35: _detect_motion_pattern returns a record with a pattern label for
\* every content of motion_history, histories of 10 or more samples
\* included; no exception leaves it.
C35_MotionPatternNeverRaises ==
    LET motion == DetectMotionPattern(motion_history)
    IN  /\ motion.raised = "None"
        /\ analysis.raised # "UnboundLocalError"

\* C36: a transform_gesture that returns the throttle's cached position
\* returns one that was computed since the last successful calibrate or
\* clear_calibration: the cache is not reused across a calibration change.
C36_NoPositionAcrossCalibration ==
    (/\ GestureTransformRequested
     /\ engine_call.throttled)
    => engine_call.smoothed_since_change > 0

\* The latest call on the smoother was a smooth that rejected its position
\* as an outlier.
SmoothRejected ==
    /\ engine_call.op = "smooth"
    /\ engine_call.before.smoother.last_smoothed # NoPoint
    /\ JumpSquared > 300 * 300

\* The squared distance of the point p from last_smoothed.
FromLastSmoothedSquared(p) ==
    (p[1] - smoother.last_smoothed[1]) * (p[1] - smoother.last_smoothed[1])
    + (p[2] - smoother.last_smoothed[2]) * (p[2] - smoother.last_smoothed[2])

\* C37: after a rejection, a smooth call whose position is still more than
\* 0.3 away from last_smoothed is rejected too: last_smoothed and the
\* returned value stay what they were; only a position within 0.3 of
\* last_smoothed, or reset, moves them.
C37_RejectionPersists ==
    [][(/\ SmoothRejected
        /\ engine_call'.op = "smooth"
        /\ FromLastSmoothedSquared(engine_call'.projected) > 300 * 300)
       => /\ smoother'.last_smoothed = smoother.last_smoothed
          /\ engine_call'.result = engine_call.result
          /\ engine_call'.result = smoother.last_smoothed]_vars

\* A second position in a row, elsewhere but still more than 0.3 away, was
\* rejected: the smoother stayed at (0.5, 0.5).
C37_Witness ==
    /\ SmoothRejected
    /\ engine_call.before.smoother.last_smoothed = <<500, 500>>
    /\ Len(engine_call.before.smoother.history) >= 2
    /\ engine_call.before.smoother.history[Len(engine_call.before.smoother.history)]
           = <<801, 500>>
    /\ engine_call.projected = <<200, 100>>
    /\ engine_call.result = <<500, 500>>
    /\ smoother.last_smoothed = <<500, 500>>

\* The labels GESTURE_PRIORITY lists.
PriorityLabels ==
    {GESTURE_PRIORITY.high[i] : i \in 1..Len(GESTURE_PRIORITY.high)}
    \cup {GESTURE_PRIORITY.medium[i] : i \in 1..Len(GESTURE_PRIORITY.medium)}
    \cup {GESTURE_PRIORITY.low[i] : i \in 1..Len(GESTURE_PRIORITY.low)}

\* Landmark samples for every set of extended fingers, with the thumb tip
\* beside, on, above or below the index tip and the index knuckle in each
\* quadrant of the yaw and on a diagonal between two.
LabelPoses ==
    {[BasePose EXCEPT !.ext = e, !.gap = t[1], !.dy = t[2], !.index_mcp = k] :
        e \in SUBSET Fingers,
        t \in {<<300, 0>>, <<30, 0>>, <<40, 0>>, <<0, 300>>, <<0, -300>>},
        k \in {Pt(450, 600), Pt(700, 800), Pt(300, 800), Pt(500, 900), Pt(600, 900)}}

\* Resolver states the frame that comes 400 ms from now can find: no pinch
\* remembered or one as old as now, at distance 0.03 or 0.04, and no earlier
\* finger count, or one of 0 or 5.
LabelTime == now + 400
LabelStates ==
    {[detected |-> FALSE, type |-> "unknown", confidence |-> 50,
      last_pinch_time |-> t, last_pinch_distance |-> d, previous_finger_count |-> c] :
        t \in {None, LabelTime - 400}, d \in {None, 30, 40}, c \in {None, 0, 5}}

\* The results of _detect_motion_pattern that are labels of GESTURE_PRIORITY,
\* and 'none' (main.py 385-403), each taken to be returned for some history.
LabelPatterns == {"none", "swipe_left", "swipe_right", "swipe_up", "swipe_down"}

\* Some resolver state and landmark sample make the tiers return label.
Producible(label) ==
    \E p \in LabelPoses :
        LET f == Features(HandLandmarks(p), LabelTime)
        IN  \E s0 \in LabelStates, pattern \in LabelPatterns, wave \in BOOLEAN :
                RunTiersFrom(s0, f, pattern, wave).type = label

\* C38: every label GESTURE_PRIORITY lists, 'ok', 'five', 'zoom_in' and
\* 'zoom_out' among them, is returned by _analyze_gesture for some resolver
\* state and landmark sample.
C38_EveryLabelProducible ==
    \A label \in PriorityLabels : Producible(label)

\* The step is an iteration in which the landmarker found no hand: the
\* classifier is not called, and the worker writes current_gesture and
\* stores the frame.
NoHandStep ==
    /\ worker = "frame"
    /\ analysis'.raised = "not called"
    /\ access' = <<Access("worker", "current_gesture", "write", FALSE),
                   Access("worker", "latest_frame", "write", TRUE)>>

\* C39: a processed frame without a hand sets current_gesture to None and
\* empties gesture_history and motion_history, and leaves last_pinch_time,
\* last_pinch_distance, previous_finger_count, gesture_hold_time, the
\* inter-hand distance history, last_pushed_gesture and last_push_time as
\* they were.
C39_NoHandKeepsResolverState ==
    [][NoHandStep =>
          /\ current_gesture' = NoGesture
          /\ gesture_history' = <<>>
          /\ motion_history' = <<>>
          /\ UNCHANGED <<last_pinch_time, last_pinch_distance, previous_finger_count,
                         gesture_hold_time, two_hand_distance_history,
                         last_pushed_gesture, last_push_time>>]_vars

\* A frame without a hand was processed after a pinch had been classified
\* and pushed: the histories are empty, the pinch and the push are still
\* remembered.
C39_Witness ==
    /\ analysis.raised = "not called"
    /\ access = <<Access("worker", "current_gesture", "write", FALSE),
                  Access("worker", "latest_frame", "write", TRUE)>>
    /\ current_gesture = NoGesture
    /\ gesture_history = <<>>
    /\ motion_history = <<>>
    /\ last_pinch_time # None
    /\ last_pinch_distance = 30
    /\ previous_finger_count # None
    /\ DOMAIN gesture_hold_time # {}
    /\ last_pushed_gesture # NoGesture
    /\ last_push_time > 0

====
